---- MODULE Spec2Model ----
(***************************************************************************)
(* Model of the Docker management facade (container, network and system    *)
(* managers) running against a Docker daemon.  The managers keep no state  *)
(* of their own: the state is the daemon's (containers, networks, endpoint *)
(* tables, reachability), plus the result of the last manager call and the *)
(* mutating daemon commands that call issued.                              *)
(*                                                                         *)
(* Identifiers and names are tuples of one-character strings, so that the  *)
(* slices ([:12]) and substring tests of the source are computed and not   *)
(* assumed.                                                                *)
(***************************************************************************)
EXTENDS Integers, Sequences, FiniteSets, TLC

\* ---------------------------------------------------------------- bounds
NumContainers == 2
NumNetworks == 1
MaxItems == 2
MaxSize == 1
NumImages == 2

\* ------------------------------------------------------ program constants
\* container.id[:12], network.id[:12]
ShortIdLen == 12

\* ------------------------------------------------------------ identifiers
HexDigits == <<"0","1","2","3","4","5","6","7","8","9","a","b","c","d","e","f">>

Cids == 1..NumContainers
Nids == 1..NumNetworks

\* Two 12-character prefixes.  Docker ids are 64 hex digits drawn at random,
\* so two containers may share their first 12; containers 1 and 2 do.
PrefixA == <<"a","1","b","2","c","3","d","4","e","5","f","6">>
PrefixB == <<"0","7","0","8","0","9","0","a","0","b","0","c">>

\* container.id : the full id of container c
FullId(c) == (IF c <= 2 THEN PrefixA ELSE PrefixB) \o <<HexDigits[c], HexDigits[c + 1]>>

\* container.name
Name(c) == <<"w","e","b", HexDigits[c]>>

\* network.id and network.name
NetId(n) == <<"9","9","8","8","7","7","6","6","5","5","4","4", HexDigits[n], "e">>
NetName(n) == <<"n","e","t", HexDigits[n]>>

Min(a, b) == IF a < b THEN a ELSE b

\* Python s[:k]
Slice(s, k) == SubSeq(s, 1, Min(Len(s), k))

\* container.id[:12]
ShortId(id) == Slice(id, ShortIdLen)

\* Python: sub in s
Contains(s, sub) ==
    \E i \in 1..(Len(s) - Len(sub) + 1) : SubSeq(s, i, i + Len(sub) - 1) = sub

IsPrefix(p, s) == Len(p) >= 1 /\ Len(p) <= Len(s) /\ SubSeq(s, 1, Len(p)) = p

NetworkWord == <<"n","e","t","w","o","r","k">>

\* Python str.lower(), on the characters identifiers are made of here
LowerChar(ch) ==
    CASE ch = "N" -> "n"
      [] ch = "W" -> "w"
      [] OTHER -> ch
Lower(s) == [i \in 1..Len(s) |-> LowerChar(s[i])]

\* Identifiers a caller may pass for a container: full id, short id, name,
\* and two that match nothing (the second contains the text 'network').
GhostRef == <<"g","h","o","s","t">>
NetworkishRef == <<"m","y","N","e","t","w","o","r","k">>
ContainerRefs ==
    {FullId(c) : c \in Cids} \cup {ShortId(FullId(c)) : c \in Cids}
        \cup {Name(c) : c \in Cids} \cup {GhostRef, NetworkishRef}

\* Identifiers a caller of the network manager may pass
NetworkRefs == {NetName(n) : n \in Nids} \cup {GhostRef}
AttachRefs == {Name(c) : c \in Cids} \cup {GhostRef, NetworkishRef}

\* image.id: the digest algorithm, ':', the digest
Iids == 1..NumImages
ImageDigest(i) ==
    <<"0","f","1","e","2","d","3","c","4","b","5","a", HexDigits[i], HexDigits[i + 1]>>
ImageId(i) == <<"s","h","a","2","5","6",":">> \o ImageDigest(i)

\* The image a container was created from
ImageOf(c) == ((c - 1) % NumImages) + 1

\* image.tags: the tags an image may carry, with and without a registry
\* host and port in front of the repository
RepoTag(i) == <<"a","p","p", HexDigits[i], ":","v","1">>
RegistryTag(i) == <<"r","e","g",":","5","0","0","0","/">> \o RepoTag(i)
TagLists(i) ==
    {<<>>, <<RepoTag(i)>>, <<RegistryTag(i)>>, <<RepoTag(i), RegistryTag(i)>>}

\* Identifiers a caller may pass for an image: id, digest prefix, tag, and
\* one that matches nothing
ImageRefs ==
    {ImageId(i) : i \in Iids} \cup {ShortId(ImageDigest(i)) : i \in Iids}
        \cup {RepoTag(i) : i \in Iids} \cup {GhostRef}

\* ------------------------------------------------------------------ state
\* volume.name
VolumeNames == {<<"d","a","t","a">>, <<"l","o","g","s">>}

\* Names a caller may pass for a volume
VolumeRefs == VolumeNames \cup {GhostRef}

\* container.attrs['Mounts']: a volume mounted by name, and a bind mount,
\* which carries no Name
VolumeMount(v) == [Type |-> "volume", has |-> {"Type", "Name"}, Name |-> v]
BindMount == [Type |-> "bind", has |-> {"Type"}, Name |-> <<>>]
MountLists ==
    {<<>>, <<BindMount>>} \cup {<<VolumeMount(v)>> : v \in VolumeNames}
        \cup {<<BindMount, VolumeMount(v)>> : v \in VolumeNames}

VARIABLES
    volumes,    \* daemon: the names of the volumes that exist
    mounts,     \* daemon: container -> its mounts
    imgtags,    \* daemon: image -> the tags it carries
    fmt,        \* a byte count and what each manager's formatter makes of it
    ipam,       \* a network's attributes and what _format_ipam makes of their IPAM
    netlist,    \* what client.networks.list() returns, system networks included
    layers,     \* daemon: the layer history of an image, newest layer first
    app,        \* the API process: has it started, and which managers it holds
    http,       \* the last HTTP response of the API process
    cstate,     \* daemon: container -> "absent" | "running" | "exited"
    nets,       \* daemon: the networks that exist
    endpoints,  \* daemon: network -> set of containers in its endpoint table
    netattrs,   \* daemon: network -> its attributes (network.attrs)
    daemonUp,   \* daemon: does it answer
    res,        \* result (return value or raised error) of the last manager call
    calls,      \* mutating daemon commands issued by the last manager call
    trace,      \* history: how far a sequence of calls that a property is about has got
    df,         \* daemon: the disk-usage report client.df() returns
    du          \* result of the last get_disk_usage

\* The state only some of the managers read
web == <<app, http>>
extras == <<imgtags, layers, fmt, volumes, mounts, ipam, netlist, web>>

vars == <<cstate, nets, endpoints, netattrs, daemonUp, res, calls, trace, df, du, extras>>

\* ------------------------------------------------------------- the daemon
\* network.attrs: a dictionary; has is the set of keys it carries.
NoAttrs == [has |-> {}, Driver |-> ""]

\* The drivers a caller of create_network may ask for
Drivers == {"bridge", "overlay"}

\* The daemon's state as one value, so that a manager call can be computed
\* through the several daemon round trips it makes.
Daemon ==
    [cstate |-> cstate, nets |-> nets, endpoints |-> endpoints, attrs |-> netattrs,
     up |-> daemonUp]

Exists(d, c) == d.cstate[c] # "absent"

\* client.containers.get(ref): exact id, then name, then unique id prefix.
\* 0: no such container; -1: the prefix is ambiguous (an API error).
ResolveContainer(d, ref) ==
    LET byId == {c \in Cids : Exists(d, c) /\ FullId(c) = ref}
        byName == {c \in Cids : Exists(d, c) /\ Name(c) = ref}
        byPrefix == {c \in Cids : Exists(d, c) /\ IsPrefix(ref, FullId(c))}
    IN  IF byId # {} THEN CHOOSE c \in byId : TRUE
        ELSE IF byName # {} THEN CHOOSE c \in byName : TRUE
        ELSE IF byPrefix = {} THEN 0
        ELSE IF Cardinality(byPrefix) = 1 THEN CHOOSE c \in byPrefix : TRUE
        ELSE -1

\* client.networks.get(ref): id or name.  0: no such network.
ResolveNetwork(d, ref) ==
    LET m == {n \in d.nets : NetId(n) = ref \/ NetName(n) = ref \/ IsPrefix(ref, NetId(n))}
    IN  IF m = {} THEN 0 ELSE CHOOSE n \in m : TRUE

\* Outcome of one daemon command: the daemon state after it, and how the
\* docker client reports it: "ok", "notfound" (docker.errors.NotFound),
\* "api" (docker.errors.APIError, with the text the managers look for), or
\* "conn" (the daemon does not answer; not an APIError).
Out(d, o, text) == [d |-> d, o |-> o, text |-> text]

\* container.start()
DaemonStart(d, c) ==
    IF ~d.up THEN Out(d, "conn", "")
    ELSE IF ~Exists(d, c) THEN Out(d, "notfound", "container")
    ELSE IF d.cstate[c] = "running" THEN Out(d, "api", "already started")
    ELSE Out([d EXCEPT !.cstate[c] = "running"], "ok", "")

\* container.stop(timeout=timeout)
DaemonStop(d, c) ==
    IF ~d.up THEN Out(d, "conn", "")
    ELSE IF ~Exists(d, c) THEN Out(d, "notfound", "container")
    ELSE IF d.cstate[c] # "running" THEN Out(d, "api", "already stopped")
    ELSE Out([d EXCEPT !.cstate[c] = "exited"], "ok", "")

\* container.restart(timeout=timeout)
DaemonRestart(d, c) ==
    IF ~d.up THEN Out(d, "conn", "")
    ELSE IF ~Exists(d, c) THEN Out(d, "notfound", "container")
    ELSE Out([d EXCEPT !.cstate[c] = "running"], "ok", "")

\* A container that is removed leaves every endpoint table.
WithoutContainer(d, c) ==
    [d EXCEPT !.cstate[c] = "absent",
              !.endpoints = [n \in Nids |-> d.endpoints[n] \ {c}]]

\* container.remove(force=force)
DaemonRemove(d, c, force) ==
    IF ~d.up THEN Out(d, "conn", "")
    ELSE IF ~Exists(d, c) THEN Out(d, "notfound", "container")
    ELSE IF d.cstate[c] = "running" /\ ~force
         THEN Out(d, "api", "cannot remove running container")
    ELSE Out(WithoutContainer(d, c), "ok", "")

\* What another caller, or the daemon itself, may do to container c between
\* two round trips of one manager call.
ContainerRaces == {"none", "remove", "stop", "start", "down"}

Race(d, c, race) ==
    CASE race = "remove" -> WithoutContainer(d, c)
      [] race = "stop" -> [d EXCEPT !.cstate[c] = "exited"]
      [] race = "start" -> [d EXCEPT !.cstate[c] = "running"]
      [] race = "down" -> [d EXCEPT !.up = FALSE]
      [] OTHER -> d

\* ---------------------------------------------------------------- results
NoRes ==
    [op |-> "none", ok |-> FALSE, kind |-> "", text |-> "", arg |-> <<>>,
     id |-> <<>>, name |-> <<>>, status |-> "", names |-> <<>>, ping |-> FALSE,
     data |-> <<>>,
     netid |-> <<>>, netname |-> <<>>,
     ref |-> <<>>, netref |-> <<>>, cid |-> 0, nid |-> 0, iid |-> 0, force |-> FALSE,
     driver |-> "",
     snap |-> {}, race |-> "none"]

\* raise Exception(text with arg interpolated)
Raise(r, kind, text, arg) ==
    [r EXCEPT !.ok = FALSE, !.kind = kind, !.text = text, !.arg = arg]

\* History of the calls made in a row, with nothing else in between:
\*   "guarded" 1: remove_network found exactly one container c in network n
\*             2: then disconnect_container of c from n succeeded
\*             3: then remove_network of n was called again
\*   "stop"    1: stop_container of c succeeded
\*             2: then stop_container of c was called again
\*   "created" 1: create_network of n with a driver succeeded
\*             2: then get_network_details of the name of n was called
NoTrace == [tag |-> "none", phase |-> 0, n |-> 0, c |-> 0, driver |-> ""]

Track(r) ==
    IF r.op = "remove_network" /\ r.nid # 0 THEN
        IF trace.tag = "guarded" /\ trace.phase = 2 /\ r.nid = trace.n
            THEN [trace EXCEPT !.phase = 3]
        ELSE IF Cardinality(r.snap) = 1
            THEN [NoTrace EXCEPT !.tag = "guarded", !.phase = 1, !.n = r.nid,
                                 !.c = CHOOSE c \in r.snap : TRUE]
        ELSE NoTrace
    ELSE IF r.op = "disconnect_container" /\ r.ok /\ trace.tag = "guarded"
            /\ trace.phase = 1 /\ r.nid = trace.n /\ r.cid = trace.c
        THEN [trace EXCEPT !.phase = 2]
    ELSE IF r.op = "stop_container" /\ r.cid > 0 THEN
        IF trace.tag = "stop" /\ trace.phase = 1 /\ r.cid = trace.c
            THEN [trace EXCEPT !.phase = 2]
        ELSE IF r.ok
            THEN [NoTrace EXCEPT !.tag = "stop", !.phase = 1, !.c = r.cid]
        ELSE NoTrace
    ELSE IF r.op = "create_network" /\ r.ok
        THEN [NoTrace EXCEPT !.tag = "created", !.phase = 1, !.n = r.nid, !.driver = r.driver]
    ELSE IF r.op = "get_network_details" /\ trace.tag = "created" /\ trace.phase = 1
            /\ r.netref = NetName(trace.n)
        THEN [trace EXCEPT !.phase = 2]
    ELSE NoTrace

\* A manager call ends: it returns r or raises r.
Return(r) ==
    /\ res' = r
    /\ trace' = Track(r)

\* The facade's error kinds are told apart by the message raised.
NotFound == "NotFound"
AlreadyInState == "AlreadyInState"
Conflict == "Conflict"
AlreadyConnected == "AlreadyConnected"
NotConnected == "NotConnected"
UpstreamFailure == "UpstreamFailure"
\* Not a kind of the facade: the exception object of the docker client itself
Raw == "Raw"

\* -------------------------------------------------------- container manager
\* The daemon is left in state d.
SetDaemon(d) ==
    /\ cstate' = d.cstate
    /\ nets' = d.nets
    /\ endpoints' = d.endpoints
    /\ netattrs' = d.attrs
    /\ daemonUp' = d.up

LifecycleStatus(op) ==
    CASE op = "start_container" -> "started"
      [] op = "stop_container" -> "stopped"
      [] op = "restart_container" -> "restarted"
      [] op = "remove_container" -> "removed"

FailedText(op) ==
    CASE op = "start_container" -> "Failed to start container"
      [] op = "stop_container" -> "Failed to stop container"
      [] op = "restart_container" -> "Failed to restart container"
      [] op = "remove_container" -> "Failed to remove container"

\* except docker.errors.APIError as e: ... of each lifecycle operation
\* (restart_container has no such clause: every APIError is a failure).
ApiErrorOfBad(r, op, text, ref) == Raise(r, UpstreamFailure, FailedText(op), ref)
ApiErrorOf(r, op, text, ref) ==
    IF op = "start_container" /\ text = "already started"
        THEN Raise(r, AlreadyInState, "is already running", ref)
    ELSE IF op = "stop_container" /\ text = "already stopped"
        THEN Raise(r, AlreadyInState, "is already stopped", ref)
    ELSE IF op = "remove_container" /\ text = "cannot remove running container"
        THEN Raise(r, Conflict, "Cannot remove running container", ref)
    ELSE Raise(r, UpstreamFailure, FailedText(op), ref)

\* except docker.errors.NotFound: raise Exception(f"Container '{container_id}' not found")
ContainerNotFoundBad(r, op, ref) == Raise(r, UpstreamFailure, FailedText(op), ref)
ContainerNotFound(r, op, ref) == Raise(r, NotFound, "Container not found", ref)

\* 'container_id' of the success result
ReturnedId(op, ref, c) ==
    IF op = "remove_container" THEN ref ELSE ShortId(FullId(c))

\* container.start() / .stop(timeout) / .restart(timeout) / .remove(force=force)
DaemonCommandBad(op, d, c, force) ==
    CASE op = "start_container" -> DaemonStart(d, c)
      [] op = "stop_container" -> DaemonStop(d, c)
      [] op = "restart_container" -> DaemonRestart(d, c)
      [] op = "remove_container" -> DaemonRemove(d, c, TRUE)
DaemonCommand(op, d, c, force) ==
    CASE op = "start_container" -> DaemonStart(d, c)
      [] op = "stop_container" -> DaemonStop(d, c)
      [] op = "restart_container" -> DaemonRestart(d, c)
      [] op = "remove_container" -> DaemonRemove(d, c, force)

\* The common shape of start/stop/restart/remove: resolve the container, then
\* issue one command; another caller may act on the container in between.
Lifecycle(op, ref, force, race) ==
    LET d0 == Daemon
        c == ResolveContainer(d0, ref)
        r0 == [NoRes EXCEPT !.op = op, !.ref = ref, !.force = force]
    IN  IF ~d0.up THEN
            /\ race = "none"
            /\ Return(Raise(r0, UpstreamFailure, FailedText(op), ref))
            /\ calls' = <<>>
            /\ UNCHANGED <<cstate, nets, endpoints, netattrs, daemonUp>>
        ELSE IF c = 0 THEN
            /\ race = "none"
            /\ Return(ContainerNotFound(r0, op, ref))
            /\ calls' = <<>>
            /\ UNCHANGED <<cstate, nets, endpoints, netattrs, daemonUp>>
        ELSE IF c = -1 THEN
            /\ race = "none"
            /\ Return(ApiErrorOf(r0, op, "ambiguous", ref))
            /\ calls' = <<>>
            /\ UNCHANGED <<cstate, nets, endpoints, netattrs, daemonUp>>
        ELSE
            LET d1 == Race(d0, c, race)
                out == DaemonCommand(op, d1, c, force)
                r1 == [r0 EXCEPT !.cid = c, !.race = race]
            IN  /\ calls' = <<[cmd |-> op, c |-> c, n |-> 0, force |-> force]>>
                /\ SetDaemon(out.d)
                /\ Return(
                    CASE out.o = "ok" ->
                            [r1 EXCEPT !.ok = TRUE,
                                       !.id = ReturnedId(op, ref, c),
                                       !.name = Name(c),
                                       !.status = LifecycleStatus(op)]
                      [] out.o = "notfound" -> ContainerNotFound(r1, op, ref)
                      [] out.o = "api" -> ApiErrorOf(r1, op, out.text, ref)
                      [] out.o = "conn" -> Raise(r1, UpstreamFailure, FailedText(op), ref))

start_container ==
    /\ \E ref \in ContainerRefs, race \in ContainerRaces :
            Lifecycle("start_container", ref, FALSE, race)
    /\ UNCHANGED <<df, du, extras>>

stop_container ==
    /\ \E ref \in ContainerRefs, race \in ContainerRaces :
            Lifecycle("stop_container", ref, FALSE, race)
    /\ UNCHANGED <<df, du, extras>>

restart_container ==
    /\ \E ref \in ContainerRefs, race \in ContainerRaces :
            Lifecycle("restart_container", ref, FALSE, race)
    /\ UNCHANGED <<df, du, extras>>

remove_container ==
    /\ \E ref \in ContainerRefs, force \in BOOLEAN, race \in ContainerRaces :
            Lifecycle("remove_container", ref, force, race)
    /\ UNCHANGED <<df, du, extras>>


\* ---------------------------------------------------------- network manager
\* The daemon's side of the network commands.

\* client.networks.create(name=name, driver=driver, ...)
DaemonNetworkCreate(d, n, driver) ==
    IF ~d.up THEN Out(d, "conn", "")
    ELSE IF n \in d.nets THEN Out(d, "api", "already exists")
    ELSE Out([d EXCEPT !.nets = @ \cup {n}, !.endpoints[n] = {},
                       !.attrs[n] = [has |-> {"Driver"}, Driver |-> driver]], "ok", "")

\* network.remove()
DaemonNetworkRemove(d, n) ==
    IF ~d.up THEN Out(d, "conn", "")
    ELSE IF n \notin d.nets THEN Out(d, "notfound", "network")
    ELSE IF d.endpoints[n] # {} THEN Out(d, "api", "has active endpoints")
    ELSE Out([d EXCEPT !.nets = @ \ {n}, !.attrs[n] = NoAttrs], "ok", "")

\* network.connect(container, ...)
DaemonNetworkConnect(d, n, c) ==
    IF ~d.up THEN Out(d, "conn", "")
    ELSE IF n \notin d.nets THEN Out(d, "notfound", "network")
    ELSE IF ~Exists(d, c) THEN Out(d, "notfound", "container")
    ELSE IF c \in d.endpoints[n] THEN Out(d, "api", "endpoint already exists")
    ELSE Out([d EXCEPT !.endpoints[n] = @ \cup {c}], "ok", "")

\* network.disconnect(container, force=force)
DaemonNetworkDisconnect(d, n, c, force) ==
    IF ~d.up THEN Out(d, "conn", "")
    ELSE IF n \notin d.nets THEN Out(d, "notfound", "network")
    ELSE IF ~Exists(d, c) THEN Out(d, "notfound", "container")
    ELSE IF c \notin d.endpoints[n] THEN Out(d, "api", "is not connected")
    ELSE Out([d EXCEPT !.endpoints[n] = @ \ {c}], "ok", "")

\* What another caller may do to network n and container c between the
\* membership check of a manager call and its mutating command.
NetworkRaces == {"none", "connect", "disconnect", "rmnet", "rmctr", "down"}

NetworkRace(d, n, c, race) ==
    CASE race = "connect" ->
            IF n \in d.nets /\ Exists(d, c) THEN [d EXCEPT !.endpoints[n] = @ \cup {c}] ELSE d
      [] race = "disconnect" -> [d EXCEPT !.endpoints[n] = @ \ {c}]
      [] race = "rmnet" ->
            IF d.endpoints[n] = {} THEN [d EXCEPT !.nets = @ \ {n}, !.attrs[n] = NoAttrs] ELSE d
      [] race = "rmctr" -> WithoutContainer(d, c)
      [] race = "down" -> [d EXCEPT !.up = FALSE]
      [] OTHER -> d

\* A race is a change: the empty race is "none".
Races(d, n, c, race) == race = "none" \/ NetworkRace(d, n, c, race) # d

\* The members of S in increasing order
RECURSIVE InOrder(_)
InOrder(S) ==
    IF S = {} THEN <<>>
    ELSE LET m == CHOOSE x \in S : \A y \in S : x <= y
         IN  <<m>> \o InOrder(S \ {m})

\* _get_network_containers: one entry per key of network.attrs['Containers']
_get_network_containersBad(d, n) == <<>>
_get_network_containers(d, n) ==
    LET keys == InOrder(d.endpoints[n])
    IN  [i \in 1..Len(keys) |-> [id |-> ShortId(FullId(keys[i])), name |-> Name(keys[i])]]

\* any(c['id'] == container.id[:12] for c in current_containers)
IsMember(current, c) ==
    \E i \in 1..Len(current) : current[i].id = ShortId(FullId(c))

\* [c['name'] for c in containers]
NamesOfBad(containers) == [i \in 1..Len(containers) |-> containers[i].id]
NamesOf(containers) == [i \in 1..Len(containers) |-> containers[i].name]

Unchanged == UNCHANGED <<cstate, nets, endpoints, netattrs, daemonUp>>

\* create_network(name, driver) for a driver among drivers
CreateNetwork(drivers) ==
    /\ \E n \in Nids, driver \in drivers :
        LET r0 == [NoRes EXCEPT !.op = "create_network", !.netref = NetName(n),
                                !.driver = driver]
            out == DaemonNetworkCreate(Daemon, n, driver)
        IN  /\ SetDaemon(out.d)
            /\ calls' = <<[cmd |-> "create_network", c |-> 0, n |-> n, force |-> FALSE]>>
            /\ Return(
                CASE out.o = "ok" ->
                        [r0 EXCEPT !.ok = TRUE, !.nid = n, !.netid = ShortId(NetId(n)),
                                   !.netname = NetName(n), !.status = "created"]
                  [] out.o = "api" /\ out.text = "already exists" ->
                        Raise(r0, Conflict, "already exists", NetName(n))
                  [] OTHER -> Raise(r0, UpstreamFailure, "Failed to create network", NetName(n)))
    /\ UNCHANGED <<df, du, extras>>

create_network == CreateNetwork(Drivers)

\* create_network(name): driver: str = 'bridge'
create_network_default == CreateNetwork({"bridge"})

\* The except clauses of remove_network, for the outcome out of network.remove()
RemoveFailedBad(r, out, ref) ==
    IF out.o = "notfound" THEN Raise(r, NotFound, "Network not found", ref)
    ELSE Raise(r, UpstreamFailure, "Failed to remove network", ref)
RemoveFailed(r, out, ref) ==
    CASE out.o = "notfound" -> Raise(r, NotFound, "Network not found", ref)
      [] out.o = "api" /\ out.text = "has active endpoints" ->
            Raise(r, Conflict, "it has active endpoints", ref)
      [] OTHER -> Raise(r, UpstreamFailure, "Failed to remove network", ref)

remove_network ==
    /\ \E ref \in NetworkRefs, race \in {"none", "connect", "rmnet", "down"}, rc \in Cids :
        LET d0 == Daemon
            n == ResolveNetwork(d0, ref)
            r0 == [NoRes EXCEPT !.op = "remove_network", !.netref = ref]
        IN  IF ~d0.up THEN
                /\ race = "none" /\ rc = 1
                /\ Return(Raise(r0, UpstreamFailure, "Failed to remove network", ref))
                /\ calls' = <<>>
                /\ Unchanged
            ELSE IF n = 0 THEN
                /\ race = "none" /\ rc = 1
                /\ Return(Raise(r0, NotFound, "Network not found", ref))
                /\ calls' = <<>>
                /\ Unchanged
            ELSE
                LET containers == _get_network_containers(d0, n)
                    r1 == [r0 EXCEPT !.nid = n, !.snap = d0.endpoints[n]]
                IN  IF containers # <<>> THEN
                        /\ race = "none" /\ rc = 1
                        /\ Return([Raise(r1, Conflict, "it's being used by containers", NetName(n))
                                      EXCEPT !.names = NamesOf(containers)])
                        /\ calls' = <<>>
                        /\ Unchanged
                    ELSE
                        LET d1 == NetworkRace(d0, n, rc, race)
                            out == DaemonNetworkRemove(d1, n)
                            r2 == [r1 EXCEPT !.race = race]
                        IN  /\ Races(d0, n, rc, race)
                            /\ race = "none" => rc = 1
                            /\ calls' = <<[cmd |-> "remove_network", c |-> 0, n |-> n, force |-> FALSE]>>
                            /\ SetDaemon(out.d)
                            /\ Return(
                                CASE out.o = "ok" ->
                                        [r2 EXCEPT !.ok = TRUE, !.netid = ref,
                                                   !.netname = NetName(n), !.status = "removed"]
                                  [] OTHER -> RemoveFailed(r2, out, ref))
    /\ UNCHANGED <<df, du, extras>>

\* details of get_network_details
NetworkDetailsBad(d, n) ==
    [id |-> NetId(n), name |-> NetName(n), driver |-> "unknown",
     containers |-> _get_network_containers(d, n)]
NetworkDetails(d, n) ==
    [id |-> NetId(n), name |-> NetName(n),
     driver |-> IF "Driver" \in d.attrs[n].has THEN d.attrs[n].Driver ELSE "unknown",
     containers |-> _get_network_containers(d, n)]

get_network_details ==
    /\ \E ref \in NetworkRefs :
        LET d0 == Daemon
            r0 == [NoRes EXCEPT !.op = "get_network_details", !.netref = ref]
            n == ResolveNetwork(d0, ref)
        IN  IF ~d0.up THEN
                Return(Raise(r0, UpstreamFailure, "Failed to get network details", ref))
            ELSE IF n = 0 THEN
                Return(Raise(r0, NotFound, "Network not found", ref))
            ELSE
                Return([r0 EXCEPT !.ok = TRUE, !.nid = n, !.data = NetworkDetails(d0, n)])
    /\ calls' = <<>>
    /\ Unchanged
    /\ UNCHANGED <<df, du, extras>>

\* except docker.errors.NotFound as e: if 'network' in str(e).lower(): ...
\* The daemon's message names the kind of object it missed and the
\* identifier it was asked for.
NotFoundOf(r, about, asked, netref, cref) ==
    IF about = "network" \/ Contains(Lower(asked), NetworkWord)
    THEN Raise(r, NotFound, "Network not found", netref)
    ELSE Raise(r, NotFound, "Container not found", cref)

\* What the client's exception says when the daemon's socket fails: the
\* operating system's text for ECONNREFUSED, ENOTCONN or EISCONN, word by word.
Refused == <<"Connection", "refused">>
ConnTexts ==
    {Refused,
     <<"Transport", "endpoint", "is", "not", "connected">>,
     <<"Transport", "endpoint", "is", "already", "connected">>}

\* The text by which the last except clause of connect_container and of
\* disconnect_container recognises the error of its own membership check
Marker(op) ==
    IF op = "connect_container" THEN <<"already", "connected">> ELSE <<"not", "connected">>

\* except Exception as e: an exception that is neither NotFound nor APIError
\* and says conn is raised again as it is when its text holds the marker,
\* and is wrapped otherwise.
Rethrown(r, op, failed, netref, conn) ==
    IF Contains(conn, Marker(op)) THEN Raise(r, Raw, "", conn)
    ELSE Raise(r, UpstreamFailure, failed, netref)

Attach(op, netref, cref, force, race, conn) ==
    LET d0 == Daemon
        n == ResolveNetwork(d0, netref)
        c == ResolveContainer(d0, cref)
        failed == IF op = "connect_container"
                  THEN "Failed to connect container to network"
                  ELSE "Failed to disconnect container from network"
        r0 == [NoRes EXCEPT !.op = op, !.netref = netref, !.ref = cref, !.force = force]
    IN  IF ~d0.up THEN
            /\ race = "none"
            /\ Return(Rethrown(r0, op, failed, netref, conn))
            /\ calls' = <<>>
            /\ Unchanged
        ELSE IF conn # Refused /\ race # "down" THEN FALSE
        ELSE IF n = 0 THEN
            /\ race = "none"
            /\ Return(NotFoundOf(r0, "network", netref, netref, cref))
            /\ calls' = <<>>
            /\ Unchanged
        ELSE IF c = 0 THEN
            /\ race = "none"
            /\ Return(NotFoundOf([r0 EXCEPT !.nid = n], "container", cref, netref, cref))
            /\ calls' = <<>>
            /\ Unchanged
        ELSE IF c = -1 THEN
            /\ race = "none"
            /\ Return(Raise([r0 EXCEPT !.nid = n], UpstreamFailure, failed, netref))
            /\ calls' = <<>>
            /\ Unchanged
        ELSE
            LET current_containers == _get_network_containers(d0, n)
                r1 == [r0 EXCEPT !.nid = n, !.cid = c, !.snap = d0.endpoints[n]]
                member == IsMember(current_containers, c)
            IN  IF op = "connect_container" /\ member THEN
                    /\ race = "none"
                    /\ Return(Raise(r1, AlreadyConnected, "is already connected to network", Name(c)))
                    /\ calls' = <<>>
                    /\ Unchanged
                ELSE IF op = "disconnect_container" /\ ~member THEN
                    /\ race = "none"
                    /\ Return(Raise(r1, NotConnected, "is not connected to network", Name(c)))
                    /\ calls' = <<>>
                    /\ Unchanged
                ELSE
                    LET d1 == NetworkRace(d0, n, c, race)
                        out == IF op = "connect_container"
                               THEN DaemonNetworkConnect(d1, n, c)
                               ELSE DaemonNetworkDisconnect(d1, n, c, force)
                        r2 == [r1 EXCEPT !.race = race]
                    IN  /\ Races(d0, n, c, race)
                        /\ calls' = <<[cmd |-> op, c |-> c, n |-> n, force |-> force]>>
                        /\ SetDaemon(out.d)
                        /\ Return(
                            CASE out.o = "ok" ->
                                    [r2 EXCEPT !.ok = TRUE,
                                               !.netid = ShortId(NetId(n)),
                                               !.netname = NetName(n),
                                               !.id = ShortId(FullId(c)),
                                               !.name = Name(c),
                                               !.status = IF op = "connect_container"
                                                          THEN "connected" ELSE "disconnected"]
                              [] out.o = "notfound" ->
                                    NotFoundOf(r2, out.text, FullId(c), netref, cref)
                              [] out.o = "conn" -> Rethrown(r2, op, failed, netref, conn)
                              [] OTHER -> Raise(r2, UpstreamFailure, failed, netref))

connect_container ==
    /\ \E netref \in NetworkRefs, cref \in AttachRefs, race \in NetworkRaces, conn \in ConnTexts :
            Attach("connect_container", netref, cref, FALSE, race, conn)
    /\ UNCHANGED <<df, du, extras>>

disconnect_container ==
    /\ \E netref \in NetworkRefs, cref \in AttachRefs, force \in BOOLEAN, race \in NetworkRaces,
          conn \in ConnTexts :
            Attach("disconnect_container", netref, cref, force, race, conn)
    /\ UNCHANGED <<df, du, extras>>

\* ------------------------------------------------------------ image manager
\* Python s.split(ch)
RECURSIVE Split(_, _)
Split(s, ch) ==
    IF \A i \in 1..Len(s) : s[i] # ch THEN <<s>>
    ELSE LET k == CHOOSE i \in 1..Len(s) : s[i] = ch /\ \A j \in 1..(i - 1) : s[j] # ch
         IN  <<SubSeq(s, 1, k - 1)>> \o Split(SubSeq(s, k + 1, Len(s)), ch)

NoneTag == <<"<","n","o","n","e",">",":","<","n","o","n","e",">">>
Latest == <<"l","a","t","e","s","t">>

\* tags = image.tags if image.tags else ['<none>:<none>']
TagsOrNone(tags) == IF tags # <<>> THEN tags ELSE <<NoneTag>>

\* image.id.split(':')[1][:12]
ImageShortId(i) == Slice(Split(ImageId(i), ":")[2], ShortIdLen)

\* tags[0].split(':')[0] if ':' in tags[0] else tags[0]
Repository(tags) ==
    IF Contains(tags[1], <<":">>) THEN Split(tags[1], ":")[1] ELSE tags[1]

\* tags[0].split(':')[1] if ':' in tags[0] else 'latest'
TagOf(tags) ==
    IF Contains(tags[1], <<":">>) THEN Split(tags[1], ":")[2] ELSE Latest

\* image_info of list_images
ImageInfo(i) ==
    LET tags == TagsOrNone(imgtags[i])
    IN  [id |-> ImageShortId(i), tags |-> tags,
         repository |-> Repository(tags), tag |-> TagOf(tags)]

\* list_images: one record per image the daemon lists.
list_images ==
    /\ \E all_images \in BOOLEAN, race \in {"none", "down"} :
        LET r0 == [NoRes EXCEPT !.op = "list_images", !.force = all_images, !.race = race]
        IN  IF ~daemonUp \/ race = "down" THEN
                /\ ~daemonUp => race = "none"
                /\ Return(Raise(r0, UpstreamFailure, "Failed to list images", <<>>))
                /\ daemonUp' = FALSE
                /\ UNCHANGED <<cstate, nets, endpoints, netattrs>>
            ELSE
                /\ Return([r0 EXCEPT !.ok = TRUE, !.data = [i \in Iids |-> ImageInfo(i)]])
                /\ Unchanged
    /\ calls' = <<>>
    /\ UNCHANGED <<df, du, extras>>

\* client.images.get(ref): id, digest prefix, or one of the tags.  0: none.
ResolveImage(ref) ==
    LET m == {i \in Iids : \/ ImageId(i) = ref
                           \/ IsPrefix(ref, ImageDigest(i))
                           \/ \E k \in 1..Len(imgtags[i]) : imgtags[i][k] = ref}
    IN  IF m = {} THEN 0 ELSE CHOOSE i \in m : TRUE

\* for layer in history[:5]
HistoryLimit == 5
\* layer.get('CreatedBy', '')[:100] + '...' if len(layer.get('CreatedBy', '')) > 100
CreatedByLimit == 100

\* A command string is held as its length: two commands of the same layer
\* are the same text up to the shorter one's length.  A layer of the daemon's
\* history carries its Id and, unless has is empty, its CreatedBy.
CommandLengths == {0, CreatedByLimit, CreatedByLimit + 1}
Layers ==
    {l \in [has : SUBSET {"CreatedBy"}, CreatedBy : CommandLengths] :
        "CreatedBy" \notin l.has => l.CreatedBy = 0}

\* One more layer than the limit shows the cut.
MaxLayers == HistoryLimit + 1

\* layer_info of _get_image_history for the k-th layer of the history:
\* created_by is the first len characters of the layer's command, followed
\* by '...' when dots
LayerInfoBad(history, k) ==
    LET created_by == IF "CreatedBy" \in history[k].has THEN history[k].CreatedBy ELSE 0
    IN  [layer |-> k,
         created_by |-> IF created_by >= CreatedByLimit
                        THEN [len |-> CreatedByLimit, dots |-> TRUE]
                        ELSE [len |-> created_by, dots |-> FALSE]]
LayerInfo(history, k) ==
    LET created_by == IF "CreatedBy" \in history[k].has THEN history[k].CreatedBy ELSE 0
    IN  [layer |-> k,
         created_by |-> IF created_by > CreatedByLimit
                        THEN [len |-> CreatedByLimit, dots |-> TRUE]
                        ELSE [len |-> created_by, dots |-> FALSE]]

\* _get_image_history: [] when client.api.history raises
_get_image_history(answers, history) ==
    IF ~answers THEN <<>>
    ELSE [k \in 1..Min(Len(history), HistoryLimit) |-> LayerInfo(history, k)]

\* details of get_image_details
ImageDetails(i, answers) ==
    [id |-> ImageId(i), tags |-> imgtags[i], history |-> _get_image_history(answers, layers)]

get_image_details ==
    /\ \E ref \in ImageRefs, race \in {"none", "historyfails"} :
        LET r0 == [NoRes EXCEPT !.op = "get_image_details", !.ref = ref, !.race = race]
            i == ResolveImage(ref)
        IN  IF ~daemonUp THEN
                /\ race = "none"
                /\ Return(Raise(r0, UpstreamFailure, "Failed to get image details", ref))
                /\ UNCHANGED daemonUp
            ELSE IF i = 0 THEN
                /\ race = "none"
                /\ Return(Raise(r0, NotFound, "Image not found", ref))
                /\ UNCHANGED daemonUp
            ELSE
                /\ Return([r0 EXCEPT !.ok = TRUE, !.iid = i,
                                     !.data = ImageDetails(i, race = "none")])
                /\ daemonUp' = (race = "none")
    /\ calls' = <<>>
    /\ UNCHANGED <<cstate, nets, endpoints, netattrs, df, du, extras>>

\* An image is built with one more layer; the daemon lists the newest first.
LayerAdded ==
    \E l \in Layers :
        /\ daemonUp
        /\ Len(layers) < MaxLayers
        /\ layers' = <<l>> \o layers
        /\ res' = NoRes
        /\ trace' = NoTrace
        /\ calls' = <<>>
        /\ UNCHANGED <<cstate, nets, endpoints, netattrs, daemonUp, df, du,
                       imgtags, fmt, volumes, mounts, ipam, netlist, web>>

\* The daemon's images are tagged and untagged by other clients (a rebuild
\* under the same tag leaves the former image without a tag).
ImageStep(tags) ==
    /\ daemonUp
    /\ imgtags' = tags
    /\ UNCHANGED <<layers, fmt, volumes, mounts, ipam, netlist, web>>
    /\ res' = NoRes
    /\ trace' = NoTrace
    /\ calls' = <<>>
    /\ Unchanged
    /\ UNCHANGED <<df, du>>

ImageUntagged ==
    \E i \in Iids :
        /\ imgtags[i] # <<>>
        /\ ImageStep([imgtags EXCEPT ![i] = <<>>])

ImageTagged ==
    \E i \in Iids : \E tags \in TagLists(i) \ {<<>>} :
        /\ imgtags[i] # tags
        /\ ImageStep([imgtags EXCEPT ![i] = tags])

\* -------------------------------------------- container manager, the reads
\* container.image.tags[0] if container.image.tags else container.image.id[:12]
ImageField(c) ==
    LET i == ImageOf(c)
    IN  IF imgtags[i] # <<>> THEN imgtags[i][1] ELSE Slice(ImageId(i), ShortIdLen)

\* list_containers(all_containers): one record per container the daemon
\* lists, running ones only unless all_containers.
ContainerInfo(d, c) ==
    [id |-> ShortId(FullId(c)), name |-> Name(c), image |-> ImageField(c),
     status |-> d.cstate[c]]

\* details of get_container_details
ContainerDetails(d, c) ==
    [id |-> FullId(c), name |-> Name(c), image |-> ImageField(c),
     status |-> d.cstate[c]]

get_container_details ==
    /\ \E ref \in ContainerRefs :
        LET d0 == Daemon
            r0 == [NoRes EXCEPT !.op = "get_container_details", !.ref = ref]
            c == ResolveContainer(d0, ref)
        IN  IF ~d0.up \/ c = -1 THEN
                Return(Raise(r0, UpstreamFailure, "Failed to get container details", ref))
            ELSE IF c = 0 THEN
                Return(Raise(r0, NotFound, "Container not found", ref))
            ELSE
                Return([r0 EXCEPT !.ok = TRUE, !.cid = c, !.data = ContainerDetails(d0, c)])
    /\ calls' = <<>>
    /\ Unchanged
    /\ UNCHANGED <<df, du, extras>>


list_containers ==
    /\ \E all_containers \in BOOLEAN, race \in {"none", "down"} :
        LET d0 == Daemon
            r0 == [NoRes EXCEPT !.op = "list_containers", !.force = all_containers, !.race = race]
            listed == InOrder({c \in Cids : Exists(d0, c)
                                  /\ (all_containers \/ d0.cstate[c] = "running")})
        IN  IF ~d0.up \/ race = "down" THEN
                /\ ~d0.up => race = "none"
                /\ Return(Raise(r0, UpstreamFailure, "Failed to list containers", <<>>))
                /\ daemonUp' = FALSE
                /\ UNCHANGED <<cstate, nets, endpoints, netattrs>>
            ELSE
                /\ Return([r0 EXCEPT !.ok = TRUE,
                                     !.data = [i \in 1..Len(listed) |-> ContainerInfo(d0, listed[i])]])
                /\ Unchanged
    /\ calls' = <<>>
    /\ UNCHANGED <<df, du, extras>>

\* ------------------------------------------------- network manager, IPAM
\* network.attrs as far as IPAM goes.  A key of a dictionary is "absent",
\* "null" (present, holding None) or holds a value.
\*   IPAM    "absent" | "null" | "dict"
\*   Driver  "absent" | a driver name
\*   Options "absent" | "null" | "empty" | "set"
\*   Config  "absent" | "null" | "list", with the list in ConfigList
\* An entry of Config carries Subnet and Gateway or misses them; IPRange and
\* AuxiliaryAddresses are absent from every entry.
IpamConfigs ==
    {e \in [has : SUBSET {"Subnet", "Gateway"}, Subnet : {"", "10.0.0.0/24"},
            Gateway : {"", "10.0.0.1"}] :
        /\ ("Subnet" \in e.has) = (e.Subnet # "")
        /\ ("Gateway" \in e.has) = (e.Gateway # "")}

ConfigLists == UNION {[1..k -> IpamConfigs] : k \in 0..MaxItems}

IpamAttrs ==
    {a \in [IPAM : {"absent", "null", "dict"}, Driver : {"absent", "default", "custom"},
            Options : {"absent", "null", "empty", "set"},
            Config : {"absent", "null", "list"}, ConfigList : ConfigLists] :
        /\ a.IPAM # "dict" => (a.Driver = "absent" /\ a.Options = "absent" /\ a.Config = "absent")
        /\ a.Config # "list" => a.ConfigList = <<>>}

\* except Exception: return {'driver': 'unknown', 'options': {}, 'config': []}
IpamFallback == [driver |-> "unknown", options |-> "empty", config |-> <<>>]

\* formatted_config
FormattedConfig(config) ==
    [subnet |-> IF "Subnet" \in config.has THEN config.Subnet ELSE "",
     gateway |-> IF "Gateway" \in config.has THEN config.Gateway ELSE "",
     ip_range |-> "", aux_addresses |-> "empty"]

\* self._format_ipam(network.attrs.get('IPAM', {})): .get on None and the
\* iteration over None raise, and the except clause answers.
_format_ipam(a) ==
    IF a.IPAM = "null" THEN IpamFallback
    ELSE IF a.Config = "null" THEN IpamFallback
    ELSE [driver |-> IF a.Driver = "absent" THEN "default" ELSE a.Driver,
          options |-> IF a.Options = "set" THEN "set" ELSE "empty",
          config |-> [i \in 1..Len(a.ConfigList) |-> FormattedConfig(a.ConfigList[i])]]

NoIpam == [op |-> "none"]

\* The ipam field of list_networks and of get_network_details for a network
\* with attributes a
format_ipam ==
    /\ \E a \in IpamAttrs : ipam' = [op |-> "_format_ipam", attrs |-> a, out |-> _format_ipam(a)]
    /\ UNCHANGED <<cstate, nets, endpoints, netattrs, daemonUp, res, calls, trace, df, du,
                   imgtags, layers, fmt, volumes, mounts, netlist, web>>

\* ------------------------------------------------ network manager, statistics
\* The daemon lists every network once, the system networks among them, each
\* under its own name; the listing is kept in the order of NetworkNames.
NetworkNames == <<"bridge", "host", "none", "app">>

\* n.name in ['bridge', 'host', 'none']
SystemNames == {"bridge", "host", "none"}

\* A listed network: its name and its attrs, of which has is the set of keys.
\* Containers is the endpoint table, keyed by container id.
ContainerSets == {1..k : k \in 0..NumContainers}

ListedNetworks ==
    {e \in [name : {NetworkNames[i] : i \in DOMAIN NetworkNames},
            has : SUBSET {"Driver", "Scope", "Containers"},
            Driver : {"", "bridge"}, Scope : {"", "swarm"}, Containers : ContainerSets] :
        /\ ("Driver" \in e.has) = (e.Driver # "")
        /\ ("Scope" \in e.has) = (e.Scope # "")
        /\ "Containers" \notin e.has => e.Containers = {}}

\* _get_network_containers(network) for a listed network: one entry per key
\* of network.attrs.get('Containers', {})
ListedContainers(network) ==
    LET keys == InOrder(IF "Containers" \in network.has THEN network.Containers ELSE {})
    IN  [i \in 1..Len(keys) |-> [id |-> ShortId(FullId(keys[i]))]]

\* hist[key] = hist.get(key, 0) + 1
Counted(hist, key) ==
    [k \in DOMAIN hist \cup {key} |->
        (IF k \in DOMAIN hist THEN hist[k] ELSE 0) + (IF k = key THEN 1 ELSE 0)]

NoStats == [drivers |-> <<>>, scopes |-> <<>>, total_containers |-> 0]

\* for network in networks: the loop of get_network_stats from network i on
RECURSIVE StatsLoopBad(_, _, _)
StatsLoopBad(networks, i, acc) ==
    IF i > Len(networks) THEN acc
    ELSE LET network == networks[i]
             driver == IF "Driver" \in network.has THEN network.Driver ELSE "unknown"
             scope == IF "Scope" \in network.has THEN network.Scope ELSE "local"
             containers == ListedContainers(network)
         IN  StatsLoopBad(networks, i + 1,
                       [drivers |-> Counted(acc.drivers, driver),
                        scopes |-> Counted(acc.scopes, scope),
                        total_containers |->
                            IF acc.total_containers >= Len(containers)
                            THEN acc.total_containers ELSE Len(containers)])
RECURSIVE StatsLoop(_, _, _)
StatsLoop(networks, i, acc) ==
    IF i > Len(networks) THEN acc
    ELSE LET network == networks[i]
             driver == IF "Driver" \in network.has THEN network.Driver ELSE "unknown"
             scope == IF "Scope" \in network.has THEN network.Scope ELSE "local"
             containers == ListedContainers(network)
         IN  StatsLoop(networks, i + 1,
                       [drivers |-> Counted(acc.drivers, driver),
                        scopes |-> Counted(acc.scopes, scope),
                        total_containers |-> acc.total_containers + Len(containers)])

\* The dictionary get_network_stats returns for the listing networks
NetworkStats(networks) ==
    LET acc == StatsLoop(networks, 1, NoStats)
    IN  [total_networks |-> Len(networks),
         drivers |-> acc.drivers,
         scopes |-> acc.scopes,
         total_connected_containers |-> acc.total_containers,
         system_networks |->
            Cardinality({i \in 1..Len(networks) : networks[i].name \in SystemNames})]

get_network_stats ==
    /\ LET r0 == [NoRes EXCEPT !.op = "get_network_stats"]
       IN  IF ~daemonUp THEN
               Return(Raise(r0, UpstreamFailure, "Failed to get network statistics", <<>>))
           ELSE
               Return([r0 EXCEPT !.ok = TRUE, !.data = NetworkStats(netlist)])
    /\ calls' = <<>>
    /\ UNCHANGED <<cstate, nets, endpoints, netattrs, daemonUp, df, du, extras>>

\* Position of a name in NetworkNames
NameIndex(name) == CHOOSE i \in DOMAIN NetworkNames : NetworkNames[i] = name

\* A network comes into being on the daemon, with containers attached or not.
NetworkListed ==
    \E e \in ListedNetworks :
        /\ daemonUp
        /\ netlist # <<>> => NameIndex(netlist[Len(netlist)].name) < NameIndex(e.name)
        /\ netlist' = Append(netlist, e)
        /\ res' = NoRes
        /\ trace' = NoTrace
        /\ calls' = <<>>
        /\ UNCHANGED <<cstate, nets, endpoints, netattrs, daemonUp, df, du,
                       imgtags, layers, fmt, volumes, mounts, ipam, web>>

\* ------------------------------------------------------------ volume manager
\* The containers, running or not, that mount volume v
Users(cs, ms, v) ==
    {c \in Cids : /\ cs[c] # "absent"
                  /\ \E k \in 1..Len(ms[c]) : ms[c][k].Type = "volume" /\ ms[c][k].Name = v}

\* volume.remove(force=force).  A volume in use is refused; whether force
\* overrides that is the daemon's choice (honoured).
DaemonVolumeRemove(d, vols, ms, v, force, honoured) ==
    IF ~d.up THEN [vols |-> vols, o |-> "conn", text |-> ""]
    ELSE IF v \notin vols THEN [vols |-> vols, o |-> "notfound", text |-> "volume"]
    ELSE IF Users(d.cstate, ms, v) # {} /\ ~(force /\ honoured)
         THEN [vols |-> vols, o |-> "api", text |-> "volume is in use"]
    ELSE [vols |-> vols \ {v}, o |-> "ok", text |-> ""]

\* mount.get('Type') == 'volume' and mount.get('Name') == volume_name
MountsVolume(mount, volume_name) ==
    /\ "Type" \in mount.has /\ mount.Type = "volume"
    /\ "Name" \in mount.has /\ mount.Name = volume_name

\* _get_containers_using_volume: of client.containers.list(all=True), the
\* containers one of whose mounts is the volume; [] when the listing fails.
_get_containers_using_volumeBad(d, ms, volume_name) ==
    LET using == InOrder({c \in Cids :
                    /\ d.cstate[c] = "running"
                    /\ \E k \in 1..Len(ms[c]) : MountsVolume(ms[c][k], volume_name)})
    IN  IF ~d.up THEN <<>>
        ELSE [i \in 1..Len(using) |->
                [id |-> ShortId(FullId(using[i])), name |-> Name(using[i]),
                 status |-> d.cstate[using[i]]]]
_get_containers_using_volume(d, ms, volume_name) ==
    LET using == InOrder({c \in Cids :
                    /\ Exists(d, c)
                    /\ \E k \in 1..Len(ms[c]) : MountsVolume(ms[c][k], volume_name)})
    IN  IF ~d.up THEN <<>>
        ELSE [i \in 1..Len(using) |->
                [id |-> ShortId(FullId(using[i])), name |-> Name(using[i]),
                 status |-> d.cstate[using[i]]]]

\* What may happen between the round trips of remove_volume: another caller
\* removes the volume after the lookup, the daemon stops answering after the
\* lookup, or it stops answering after refusing the removal.
VolumeRaces == {"none", "rmvol", "down", "listfails"}

remove_volume ==
    /\ \E volume_name \in VolumeRefs, force \in BOOLEAN, honoured \in BOOLEAN,
          race \in VolumeRaces :
        LET d0 == Daemon
            r0 == [NoRes EXCEPT !.op = "remove_volume", !.ref = volume_name, !.force = force]
        IN  IF ~d0.up THEN
                /\ race = "none" /\ honoured
                /\ Return(Raise(r0, UpstreamFailure, "Failed to remove volume", volume_name))
                /\ calls' = <<>>
                /\ UNCHANGED <<volumes, daemonUp>>
            ELSE IF volume_name \notin volumes THEN
                /\ race = "none" /\ honoured
                /\ Return(Raise(r0, NotFound, "Volume not found", volume_name))
                /\ calls' = <<>>
                /\ UNCHANGED <<volumes, daemonUp>>
            ELSE
                LET users == Users(cstate, mounts, volume_name)
                    d1 == IF race = "down" THEN [d0 EXCEPT !.up = FALSE] ELSE d0
                    vols1 == IF race = "rmvol" /\ users = {}
                             THEN volumes \ {volume_name} ELSE volumes
                    out == DaemonVolumeRemove(d1, vols1, mounts, volume_name, force, honoured)
                    d2 == IF race = "listfails" THEN [d1 EXCEPT !.up = FALSE] ELSE d1
                    r1 == [r0 EXCEPT !.snap = users, !.race = race]
                IN  /\ race = "rmvol" => users = {}
                    /\ race = "listfails" => out.o = "api"
                    /\ ~honoured => (force /\ users # {} /\ race \in {"none", "listfails"})
                    /\ calls' = <<[cmd |-> "remove_volume", c |-> 0, n |-> 0, force |-> force]>>
                    /\ volumes' = out.vols
                    /\ daemonUp' = IF out.o = "api" THEN d2.up ELSE d1.up
                    /\ Return(
                        CASE out.o = "ok" ->
                                [r1 EXCEPT !.ok = TRUE, !.name = volume_name, !.status = "removed"]
                          [] out.o = "notfound" ->
                                Raise(r1, NotFound, "Volume not found", volume_name)
                          [] out.o = "api" /\ out.text = "volume is in use" ->
                                [Raise(r1, Conflict, "it's being used by containers", volume_name)
                                    EXCEPT !.names =
                                        NamesOf(_get_containers_using_volume(d2, mounts, volume_name))]
                          [] OTHER -> Raise(r1, UpstreamFailure, "Failed to remove volume", volume_name))
    /\ UNCHANGED <<cstate, nets, endpoints, netattrs, mounts, imgtags, layers, fmt, ipam, netlist, web,
                   df, du>>

\* Volumes and the containers that mount them come and go through other
\* clients of the daemon.
VolumeStep(vols, cs, ms) ==
    /\ daemonUp
    /\ volumes' = vols
    /\ cstate' = cs
    /\ mounts' = ms
    /\ res' = NoRes
    /\ trace' = NoTrace
    /\ calls' = <<>>
    /\ UNCHANGED <<nets, endpoints, netattrs, daemonUp, imgtags, layers, fmt, ipam, netlist, web, df, du>>

VolumeCreated ==
    \E v \in VolumeNames :
        /\ v \notin volumes
        /\ VolumeStep(volumes \cup {v}, cstate, mounts)

\* A container is created with its mounts; a volume it names is created with
\* it when it does not exist.
ContainerMounts ==
    \E c \in Cids, ms \in MountLists, st \in {"running", "exited"} :
        /\ cstate[c] = "absent"
        /\ VolumeStep(volumes \cup {ms[k].Name : k \in {j \in 1..Len(ms) : ms[j].Type = "volume"}},
                      [cstate EXCEPT ![c] = st], [mounts EXCEPT ![c] = ms])

ContainerUnmounts ==
    \E c \in Cids :
        /\ cstate[c] # "absent"
        /\ VolumeStep(volumes, [cstate EXCEPT ![c] = "absent"], [mounts EXCEPT ![c] = <<>>])

\* ------------------------------------------------------------ system manager
\* except Exception as e: return {'status': 'not_running', 'error': str(e), 'ping': False}
StatusOnFailureBad(r, text) == Raise(r, UpstreamFailure, "Failed to get daemon status", <<>>)
StatusOnFailure(r, text) ==
    [r EXCEPT !.ok = TRUE, !.status = "not_running", !.text = text, !.ping = FALSE]

\* get_daemon_status: ping, then info, then version; the daemon may stop
\* answering before any of the three.
get_daemon_status ==
    /\ \E failing \in {"none", "ping", "info", "version"} :
        LET d0 == Daemon
            r0 == [NoRes EXCEPT !.op = "get_daemon_status", !.race = failing]
            running == {c \in Cids : d0.cstate[c] = "running"}
            total == {c \in Cids : Exists(d0, c)}
        IN  /\ ~d0.up => failing = "ping"
            /\ IF failing # "none" THEN
                    /\ Return(StatusOnFailure(r0, "daemon unreachable"))
                    /\ daemonUp' = FALSE
                    /\ UNCHANGED <<cstate, nets, endpoints, netattrs>>
               ELSE
                    /\ Return([r0 EXCEPT !.ok = TRUE, !.status = "running", !.ping = TRUE,
                                         !.data = [containers_running |-> Cardinality(running),
                                                   containers_total |-> Cardinality(total)]])
                    /\ Unchanged
    /\ calls' = <<>>
    /\ UNCHANGED <<df, du, extras>>

\* ------------------------------------------------------- size formatting
Units == <<"B", "KB", "MB", "GB", "TB">>

\* A byte count is held as its base-1024 digits, the most significant first
\* (<<1, 512>> is 1536): a count may exceed the integers of the checker, and
\* dividing by 1024.0 moves one digit behind the point.  Below 2**53 the
\* divisions are exact in floating point.
RECURSIVE Digits(_)
Digits(n) == IF n < 1024 THEN <<n>> ELSE Digits(n \div 1024) \o <<n % 1024>>

RECURSIVE Value(_)
Value(q) == IF q = <<>> THEN 0 ELSE 1024 * Value(SubSeq(q, 1, Len(q) - 1)) + q[Len(q)]

\* Ten times the fraction 0.frac: the digit carried in front of the point
\* and the digits left behind it
RECURSIVE Times10(_)
Times10(frac) ==
    IF frac = <<>> THEN [carry |-> 0, digits |-> <<>>]
    ELSE LET rest == Times10(Tail(frac))
             v == 10 * Head(frac) + rest.carry
         IN  [carry |-> v \div 1024, digits |-> <<v % 1024>> \o rest.digits]

\* f"{x:.1f}" of x = int.frac: the tenths of x, rounded half to even
TenthsOf(int, frac) ==
    LET m == Times10(frac)
        r == m.digits
        t == 10 * Value(int) + m.carry
        half == r # <<>> /\ r[1] = 512 /\ \A j \in 2..Len(r) : r[j] = 0
        more == r # <<>> /\ (r[1] > 512 \/ (r[1] = 512 /\ \E j \in 2..Len(r) : r[j] # 0))
    IN  IF more \/ (half /\ t % 2 = 1) THEN t + 1 ELSE t

Formatted(neg, tenths, unit) ==
    [neg |-> neg, whole |-> tenths \div 10, frac |-> tenths % 10, unit |-> unit]

\* "0 B": the one result without a decimal
ZeroB == [neg |-> FALSE, whole |-> 0, frac |-> -1, unit |-> "B"]

\* for unit in ['B', 'KB', 'MB', 'GB', 'TB']:
\*     if size_bytes < 1024.0: return f"{size_bytes:.1f} {unit}"
\*     size_bytes /= 1024.0
\* return f"{size_bytes:.1f} PB"
RECURSIVE FormatLoop(_, _, _)
FormatLoop(int, frac, u) ==
    IF u > Len(Units) THEN Formatted(FALSE, TenthsOf(int, frac), "PB")
    ELSE IF Len(int) <= 1 THEN Formatted(FALSE, TenthsOf(int, frac), Units[u])
    ELSE FormatLoop(SubSeq(int, 1, Len(int) - 1), <<int[Len(int)]>> \o frac, u + 1)

\* ImageManager._format_size
Image_format_size(q) == FormatLoop(q, <<>>, 1)

\* VolumeManager._format_size
Volume_format_size(q) == IF q = <<0>> THEN ZeroB ELSE FormatLoop(q, <<>>, 1)

\* SystemManager._format_size
System_format_size(q) == IF q = <<0>> THEN ZeroB ELSE FormatLoop(q, <<>>, 1)

\* SystemManager._format_size of a count the daemon reports, which may be
\* negative
_format_size(size_bytes) ==
    IF size_bytes < 0 THEN Formatted(TRUE, (0 - size_bytes) * 10, "B")
    ELSE System_format_size(Digits(size_bytes))

\* The byte counts the formatters are applied to: one to six digits, below
\* 2**53.  The first digit behind the point decides the rounding (256 and 768
\* are the ties .25 and .75), the digits after it whether a tie is exact.
ByteDigits == {0, 1, 256, 512, 768, 1023}
TopDigits == {1, 1023}
LowDigits == {0, 1}
MaxByteDigits == Len(Units) + 1
ByteCounts ==
    {<<d>> : d \in ByteDigits} \cup
    UNION {{<<t, f>> \o low : t \in {x \in TopDigits : k = MaxByteDigits => x < 8},
                              f \in ByteDigits,
                              low \in [1..(k - 2) -> LowDigits]} : k \in 2..MaxByteDigits}

NoFmt == [op |-> "none"]

\* Each manager formats the same byte count.
format_size ==
    /\ \E q \in ByteCounts :
            fmt' = [op |-> "format_size", size_bytes |-> q,
                    image |-> Image_format_size(q),
                    volume |-> Volume_format_size(q),
                    system |-> System_format_size(q)]
    /\ UNCHANGED <<cstate, nets, endpoints, netattrs, daemonUp, res, calls, trace, df, du,
                   imgtags, layers, volumes, mounts, ipam, netlist, web>>

\* ------------------------------------------------------------- disk usage
\* An entry of the daemon's report is a dictionary: has is the set of keys it
\* carries, and a key it does not carry holds 0 (or "").
Get(e, key, default) == IF key \in e.has THEN e[key] ELSE default

RECURSIVE Sum(_)
Sum(q) == IF q = <<>> THEN 0 ELSE Head(q) + Sum(Tail(q))

\* c.get('SizeRw', 0): whatever the daemon reports, a negative number included
Sizes == {0 - 1, 0, MaxSize}

ContainerEntries ==
    {e \in [has : SUBSET {"SizeRw", "SizeRootFs", "State"}, SizeRw : Sizes,
            SizeRootFs : Sizes, State : {"", "running", "exited"}] :
        /\ "SizeRw" \notin e.has => e.SizeRw = 0
        /\ "SizeRootFs" \notin e.has => e.SizeRootFs = 0
        /\ ("State" \in e.has) = (e.State # "")}

ImageEntries ==
    {e \in [has : SUBSET {"Size", "SharedSize", "Containers"}, Size : Sizes,
            SharedSize : {0, MaxSize}, Containers : 0..1] :
        /\ "Size" \notin e.has => e.Size = 0
        /\ ("SharedSize" \in e.has) = (e.SharedSize # 0)
        /\ "Containers" \notin e.has => e.Containers = 0}

VolumeEntries ==
    {e \in [has : SUBSET {"Size", "RefCount"}, Size : Sizes, RefCount : 0..1] :
        /\ "Size" \notin e.has => e.Size = 0
        /\ "RefCount" \notin e.has => e.RefCount = 0}

BuildCacheEntries ==
    {e \in [has : SUBSET {"Size"}, Size : Sizes] : "Size" \notin e.has => e.Size = 0}

\* sum(c.get('SizeRw', 0) + c.get('SizeRootFs', 0) for c in containers_info)
ContainersSize(q) ==
    Sum([i \in 1..Len(q) |-> Get(q[i], "SizeRw", 0) + Get(q[i], "SizeRootFs", 0)])

\* sum(x.get('Size', 0) for x in q)
SizeOf(q) == Sum([i \in 1..Len(q) |-> Get(q[i], "Size", 0)])

\* sum(img.get('SharedSize', 0) for img in images_info)
SharedSizeOf(q) == Sum([i \in 1..Len(q) |-> Get(q[i], "SharedSize", 0)])

\* sum(c.get('SizeRw', 0) for c in containers_info if c.get('State') != 'running')
NotRunning(e) == Get(e, "State", "") # "running"
ContainersReclaimableBad(q) == ContainersSize(SelectSeq(q, NotRunning))
ContainersReclaimable(q) ==
    LET idle == SelectSeq(q, NotRunning)
    IN  Sum([i \in 1..Len(idle) |-> Get(idle[i], "SizeRw", 0)])

\* sum(img.get('Size', 0) for img in images_info if not img.get('Containers', 0))
NoContainers(e) == Get(e, "Containers", 0) = 0
ImagesReclaimable(q) == SizeOf(SelectSeq(q, NoContainers))

\* sum(vol.get('Size', 0) for vol in volumes_info if vol.get('RefCount', 0) == 0)
NoRefs(e) == Get(e, "RefCount", 0) = 0
VolumesReclaimable(q) == SizeOf(SelectSeq(q, NoRefs))

\* 'total': {'size_bytes': containers_size + images_size + volumes_size + build_cache_size}
TotalSizeBad(containers_size, images_size, volumes_size, build_cache_size) ==
    containers_size + images_size + volumes_size
TotalSize(containers_size, images_size, volumes_size, build_cache_size) ==
    containers_size + images_size + volumes_size + build_cache_size

\* The report get_disk_usage returns for the daemon report d
DiskUsage(d) ==
    LET containers_size == ContainersSize(d.Containers)
        images_size == SizeOf(d.Images)
        images_shared_size == SharedSizeOf(d.Images)
        volumes_size == SizeOf(d.Volumes)
        build_cache_size == SizeOf(d.BuildCache)
        total == TotalSize(containers_size, images_size, volumes_size, build_cache_size)
    IN  [op |-> "get_disk_usage", ok |-> TRUE,
         containers |-> [count |-> Len(d.Containers),
                         size |-> _format_size(containers_size),
                         size_bytes |-> containers_size,
                         reclaimable |-> _format_size(ContainersReclaimable(d.Containers)),
                         reclaimable_bytes |-> ContainersReclaimable(d.Containers)],
         images |-> [count |-> Len(d.Images),
                     size |-> _format_size(images_size),
                     size_bytes |-> images_size,
                     shared_size |-> _format_size(images_shared_size),
                     shared_size_bytes |-> images_shared_size,
                     reclaimable |-> _format_size(ImagesReclaimable(d.Images)),
                     reclaimable_bytes |-> ImagesReclaimable(d.Images)],
         volumes |-> [count |-> Len(d.Volumes),
                      size |-> _format_size(volumes_size),
                      size_bytes |-> volumes_size,
                      reclaimable |-> _format_size(VolumesReclaimable(d.Volumes)),
                      reclaimable_bytes |-> VolumesReclaimable(d.Volumes)],
         build_cache |-> [count |-> Len(d.BuildCache),
                          size |-> _format_size(build_cache_size),
                          size_bytes |-> build_cache_size,
                          reclaimable |-> _format_size(build_cache_size),
                          reclaimable_bytes |-> build_cache_size],
         total |-> [size |-> _format_size(total), size_bytes |-> total]]

NoDf == [Containers |-> <<>>, Images |-> <<>>, Volumes |-> <<>>, BuildCache |-> <<>>]
NoDu == [op |-> "none", ok |-> FALSE]

\* except Exception as e: raise Exception(f"Failed to get disk usage: {str(e)}")
DiskUsageFailed == [op |-> "get_disk_usage", ok |-> FALSE]

get_disk_usage ==
    /\ du' = IF daemonUp THEN DiskUsage(df) ELSE DiskUsageFailed
    /\ UNCHANGED <<cstate, nets, endpoints, netattrs, daemonUp, res, calls, trace, df, extras>>

\* client.info(), as far as get_overall_statistics reads it
InfoBad(d) ==
    [Containers |-> 0, ContainersRunning |-> 0, ContainersStopped |-> 0, Images |-> NumImages]
Info(d) ==
    [Containers |-> Cardinality({c \in Cids : Exists(d, c)}),
     ContainersRunning |-> Cardinality({c \in Cids : d.cstate[c] = "running"}),
     ContainersStopped |-> Cardinality({c \in Cids : d.cstate[c] = "exited"}),
     Images |-> NumImages]

\* 'total_disk_usage': self._format_size(containers_size + images_size + volumes_size)
OverallSize(containers_size, images_size, volumes_size) ==
    containers_size + images_size + volumes_size

\* The summary get_overall_statistics returns for the daemon's info, its
\* report report and its network listing networks
OverallStatistics(info, report, networks) ==
    LET volumes_info == report.Volumes
        containers_size == ContainersSize(report.Containers)
        images_size == SizeOf(report.Images)
        volumes_size == SizeOf(volumes_info)
    IN  [op |-> "get_overall_statistics", ok |-> TRUE,
         containers |-> [total |-> info.Containers,
                         running |-> info.ContainersRunning,
                         stopped |-> info.ContainersStopped,
                         disk_usage |-> _format_size(containers_size)],
         images |-> [total |-> info.Images, disk_usage |-> _format_size(images_size)],
         volumes |-> [total |-> Len(volumes_info), disk_usage |-> _format_size(volumes_size)],
         networks |-> [total |-> Len(networks)],
         system |-> [total_disk_usage |->
                        _format_size(OverallSize(containers_size, images_size, volumes_size))]]

\* except Exception as e: raise Exception(f"Failed to get overall statistics: {str(e)}")
OverallStatisticsFailed == [op |-> "get_overall_statistics", ok |-> FALSE]

get_overall_statistics ==
    /\ du' = IF daemonUp THEN OverallStatistics(Info(Daemon), df, netlist)
             ELSE OverallStatisticsFailed
    /\ UNCHANGED <<cstate, nets, endpoints, netattrs, daemonUp, res, calls, trace, df, extras>>

\* The daemon's report grows as containers, images, volumes and build cache
\* records come to exist.
Entries(d) == Len(d.Containers) + Len(d.Images) + Len(d.Volumes) + Len(d.BuildCache)

ReportGrows(d) ==
    /\ daemonUp
    /\ Entries(df) < MaxItems
    /\ df' = d
    /\ du' = NoDu
    /\ UNCHANGED <<cstate, nets, endpoints, netattrs, daemonUp, res, calls, trace, extras>>

ContainerReported ==
    \E e \in ContainerEntries : ReportGrows([df EXCEPT !.Containers = Append(@, e)])

ImageReported ==
    \E e \in ImageEntries : ReportGrows([df EXCEPT !.Images = Append(@, e)])

VolumeReported ==
    \E e \in VolumeEntries : ReportGrows([df EXCEPT !.Volumes = Append(@, e)])

BuildCacheReported ==
    \E e \in BuildCacheEntries : ReportGrows([df EXCEPT !.BuildCache = Append(@, e)])

\* ------------------------------------------- volume manager, the reads
\* An entry of df_info['Volumes'] as the volume manager reads it: Name, Size
\* and RefCount, any of which may be missing.
NamedVolumeEntries ==
    {e \in [has : SUBSET {"Name", "Size", "RefCount"}, Name : VolumeNames \cup {<<>>},
            Size : {0, MaxSize}, RefCount : 0..1] :
        /\ ("Name" \in e.has) = (e.Name # <<>>)
        /\ ("Size" \in e.has) = (e.Size # 0)
        /\ ("RefCount" \in e.has) = (e.RefCount # 0)}

\* 'size': 'Unknown'
UnknownSize == [neg |-> FALSE, whole |-> 0 - 1, frac |-> 0 - 1, unit |-> "Unknown"]
UnknownUsage == [size |-> UnknownSize, size_bytes |-> 0, ref_count |-> 0]

UsageOf(vol_info) ==
    [size |-> Volume_format_size(Digits(Get(vol_info, "Size", 0))),
     size_bytes |-> Get(vol_info, "Size", 0),
     ref_count |-> Get(vol_info, "RefCount", 0)]

\* _get_volume_usage: the first entry of df()['Volumes'] whose Name is the
\* volume's; the sentinel when there is none or when df() fails (answers).
_get_volume_usageBad(answers, volumes_info, volume_name) ==
    IF ~answers \/ volumes_info = <<>> THEN UnknownUsage ELSE UsageOf(volumes_info[1])
_get_volume_usage(answers, volumes_info, volume_name) ==
    LET hits == {i \in 1..Len(volumes_info) : Get(volumes_info[i], "Name", <<>>) = volume_name}
    IN  IF ~answers \/ hits = {} THEN UnknownUsage
        ELSE UsageOf(volumes_info[CHOOSE i \in hits : \A j \in hits : i <= j])

\* list_volumes: one record per volume; the daemon may stop answering after
\* it has listed the volumes ("dffails").
list_volumes ==
    /\ \E race \in {"none", "down", "dffails"} :
        LET r0 == [NoRes EXCEPT !.op = "list_volumes", !.race = race]
        IN  IF ~daemonUp \/ race = "down" THEN
                /\ ~daemonUp => race = "none"
                /\ Return(Raise(r0, UpstreamFailure, "Failed to list volumes", <<>>))
                /\ daemonUp' = FALSE
            ELSE
                /\ Return([r0 EXCEPT !.ok = TRUE,
                                     !.data = [v \in volumes |->
                                        [name |-> v,
                                         usage |-> _get_volume_usage(race = "none", df.Volumes, v)]]])
                /\ daemonUp' = (race = "none")
    /\ calls' = <<>>
    /\ UNCHANGED <<cstate, nets, endpoints, netattrs, df, du, extras>>

get_volume_details ==
    /\ \E volume_name \in VolumeRefs, race \in {"none", "dffails"} :
        LET r0 == [NoRes EXCEPT !.op = "get_volume_details", !.ref = volume_name, !.race = race]
            d1 == [Daemon EXCEPT !.up = (race = "none")]
        IN  IF ~daemonUp THEN
                /\ race = "none"
                /\ Return(Raise(r0, UpstreamFailure, "Failed to get volume details", volume_name))
                /\ UNCHANGED daemonUp
            ELSE IF volume_name \notin volumes THEN
                /\ race = "none"
                /\ Return(Raise(r0, NotFound, "Volume not found", volume_name))
                /\ UNCHANGED daemonUp
            ELSE
                /\ Return([r0 EXCEPT !.ok = TRUE,
                            !.data = [name |-> volume_name,
                                      usage |-> _get_volume_usage(race = "none", df.Volumes, volume_name),
                                      containers_using |->
                                        _get_containers_using_volume(d1, mounts, volume_name)]])
                /\ daemonUp' = (race = "none")
    /\ calls' = <<>>
    /\ UNCHANGED <<cstate, nets, endpoints, netattrs, df, du, extras>>

\* The daemon's disk-usage report comes to list a volume.
VolumeUsageReported ==
    \E e \in NamedVolumeEntries :
        /\ daemonUp
        /\ Len(df.Volumes) < MaxItems
        /\ df' = [df EXCEPT !.Volumes = Append(@, e)]
        /\ res' = NoRes
        /\ trace' = NoTrace
        /\ calls' = <<>>
        /\ UNCHANGED <<cstate, nets, endpoints, netattrs, daemonUp, du, extras>>

\* ------------------------------------------- volume manager, the statistics
\* volume.attrs.get('Driver', 'local'): the Driver a volume's attributes
\* carry, "" for none
VolumeDrivers == {"", "local", "nfs"}
DriverOf(attrs, v) == IF attrs[v] = "" THEN "local" ELSE attrs[v]

\* df()['Volumes'] of a daemon whose volumes are vols: one entry per volume,
\* its RefCount the number of containers that mount it.
VolumeOrder == <<<<"d","a","t","a">>, <<"l","o","g","s">>>>
RefCountOf(d, ms, v) ==
    Cardinality({c \in Cids : Exists(d, c) /\ \E k \in 1..Len(ms[c]) : MountsVolume(ms[c][k], v)})
VolumesReport(vols, d, ms) ==
    LET listed == SelectSeq(VolumeOrder, LAMBDA v : v \in vols)
    IN  [i \in 1..Len(listed) |->
            [has |-> {"Name"} \cup (IF RefCountOf(d, ms, listed[i]) = 0 THEN {} ELSE {"RefCount"}),
             Name |-> listed[i], Size |-> 0, RefCount |-> RefCountOf(d, ms, listed[i])]]

\* the dictionary get_volume_stats returns, from the volumes listed and the
\* report read after them
VolumeStats(listed, attrs, volumes_df) ==
    [total_volumes |-> Cardinality(listed),
     total_size_bytes |-> Sum([i \in 1..Len(volumes_df) |-> Get(volumes_df[i], "Size", 0)]),
     drivers |-> [dr \in {DriverOf(attrs, v) : v \in listed} |->
                    Cardinality({v \in listed : DriverOf(attrs, v) = dr})],
     unused_volumes |->
        Cardinality({i \in 1..Len(volumes_df) : Get(volumes_df[i], "RefCount", 0) = 0})]

\* get_volume_stats: client.volumes.list(), then client.df().  Between the
\* two another client may create a volume or remove an unmounted one, or the
\* daemon may stop answering.
get_volume_stats ==
    /\ \E race \in {"none", "created", "removed", "down"}, v \in VolumeNames,
          attrs \in [VolumeNames -> VolumeDrivers] :
        LET r0 == [NoRes EXCEPT !.op = "get_volume_stats", !.race = race, !.snap = volumes]
            after == CASE race = "created" -> volumes \cup {v}
                       [] race = "removed" -> volumes \ {v}
                       [] OTHER -> volumes
        IN  /\ race = "created" => v \notin volumes
            /\ race = "removed" => v \in volumes /\ RefCountOf(Daemon, mounts, v) = 0
            /\ race \in {"none", "down"} => v = VolumeOrder[1]
            /\ ~daemonUp => race = "none"
            /\ volumes' = after
            /\ IF ~daemonUp \/ race = "down" THEN
                    /\ Return(Raise(r0, UpstreamFailure, "Failed to get volume statistics", <<>>))
                    /\ daemonUp' = FALSE
               ELSE
                    /\ Return([r0 EXCEPT !.ok = TRUE,
                                         !.data = VolumeStats(volumes, attrs,
                                                    VolumesReport(after, Daemon, mounts))])
                    /\ UNCHANGED daemonUp
    /\ calls' = <<>>
    /\ UNCHANGED <<cstate, nets, endpoints, netattrs, mounts, imgtags, layers, fmt, ipam,
                   netlist, web, df, du>>

\* ------------------------------------------------------------ the API process
\* The managers, in the order in which main.py constructs them
ManagerOrder == <<"container_mgr", "image_mgr", "volume_mgr", "network_mgr", "system_mgr">>
Managers == {ManagerOrder[i] : i \in DOMAIN ManagerOrder}

\* Before the process has started it holds no manager.
NoApp == [started |-> FALSE, mgr |-> [m \in Managers |-> FALSE]]
NoHttp ==
    [route |-> "", term |-> TRUE, code |-> 0, success |-> FALSE, docker_daemon |-> "",
     count |-> 0]

HttpOk == 200
HttpBadRequest == 400
HttpError == 500
HttpUnavailable == 503

\* try: container_mgr = ContainerManager() ... system_mgr = SystemManager()
\* except Exception: container_mgr = ... = system_mgr = None
\* when the daemon answers the ping of the first k constructors only.
InitManagersBad(k) == [m \in Managers |-> \E i \in 1..k : ManagerOrder[i] = m]
InitManagers(k) == [m \in Managers |-> k = Len(ManagerOrder)]

\* The module-level code of main.py runs once, when the process starts.
process_start ==
    /\ ~app.started
    /\ \E k \in 0..Len(ManagerOrder) :
        /\ ~daemonUp => k = 0
        /\ app' = [started |-> TRUE, mgr |-> InitManagers(k)]
        /\ daemonUp' = (k = Len(ManagerOrder))
    /\ UNCHANGED <<cstate, nets, endpoints, netattrs, res, calls, trace, df, du,
                   imgtags, layers, fmt, volumes, mounts, ipam, netlist, http>>

\* The response of health_check when the daemon answers get_daemon_status
\* (answers) or not
HealthResponseBad(answers) ==
    IF app.mgr["system_mgr"] /\ answers THEN
        [NoHttp EXCEPT !.route = "/health", !.code = HttpOk, !.success = TRUE,
                       !.docker_daemon = "running"]
    ELSE [NoHttp EXCEPT !.route = "/health", !.code = HttpUnavailable]
HealthResponse(answers) ==
    IF app.mgr["system_mgr"] THEN
        [NoHttp EXCEPT !.route = "/health", !.code = HttpOk, !.success = TRUE,
                       !.docker_daemon = IF answers THEN "running" ELSE "not_running"]
    ELSE [NoHttp EXCEPT !.route = "/health", !.code = HttpUnavailable]

\* GET /health
health_check ==
    /\ app.started
    /\ \E failing \in {"none", "ping"} :
        /\ (~daemonUp \/ ~app.mgr["system_mgr"]) => failing = "none"
        /\ http' = HealthResponse(daemonUp /\ failing = "none")
        /\ daemonUp' = (daemonUp /\ (app.mgr["system_mgr"] => failing = "none"))
    /\ UNCHANGED <<cstate, nets, endpoints, netattrs, res, calls, trace, df, du,
                   imgtags, layers, fmt, volumes, mounts, ipam, netlist, app>>

\* The routes under /api taken here: a listing, the daemon status, a search
\* that needs the parameter term, and the list of commands.
ApiRoutes == {"/api/containers", "/api/system/status", "/api/images/search", "/api/commands"}

\* The manager a route calls
ManagerOf(route) ==
    CASE route = "/api/containers" -> "container_mgr"
      [] route = "/api/system/status" -> "system_mgr"
      [] route = "/api/images/search" -> "image_mgr"
      [] OTHER -> ""

\* handle_error: return jsonify({'error': str(e), 'success': False}), 500
Failed500(route) == [NoHttp EXCEPT !.route = route, !.code = HttpError]

\* A request to route; term: does it carry the search term.
ApiResponse(route, term) ==
    LET ok == [NoHttp EXCEPT !.route = route, !.code = HttpOk, !.success = TRUE]
    IN  IF route = "/api/commands" THEN ok
        ELSE IF route = "/api/images/search" /\ ~term THEN
            [NoHttp EXCEPT !.route = route, !.term = FALSE, !.code = HttpBadRequest]
        ELSE IF ~app.mgr[ManagerOf(route)] THEN Failed500(route)
        ELSE IF route = "/api/system/status" THEN
            [ok EXCEPT !.docker_daemon = IF daemonUp THEN "running" ELSE "not_running"]
        ELSE IF ~daemonUp THEN Failed500(route)
        ELSE IF route = "/api/containers" THEN
            [ok EXCEPT !.count = Cardinality({c \in Cids : cstate[c] = "running"})]
        ELSE ok

api_request ==
    /\ app.started
    /\ \E route \in ApiRoutes, term \in BOOLEAN :
        /\ route # "/api/images/search" => term
        /\ http' = ApiResponse(route, term)
    /\ UNCHANGED <<cstate, nets, endpoints, netattrs, daemonUp, res, calls, trace, df, du,
                   imgtags, layers, fmt, volumes, mounts, ipam, netlist, app>>

\* ------------------------------------------- what happens outside the facade
\* Containers come and go and change state through other clients of the
\* daemon; the facade sees whatever the daemon holds when it asks.
DaemonStep(d) ==
    /\ SetDaemon(d)
    /\ res' = NoRes
    /\ trace' = NoTrace
    /\ calls' = <<>>
    /\ UNCHANGED <<df, du, extras>>

ContainerRuns ==
    \E c \in Cids :
        /\ daemonUp
        /\ cstate[c] = "absent"
        /\ DaemonStep([Daemon EXCEPT !.cstate[c] = "running"])

ContainerCreated ==
    \E c \in Cids :
        /\ daemonUp
        /\ cstate[c] = "absent"
        /\ DaemonStep([Daemon EXCEPT !.cstate[c] = "exited"])

ContainerRemoved ==
    \E c \in Cids :
        /\ daemonUp
        /\ cstate[c] # "absent"
        /\ DaemonStep(WithoutContainer(Daemon, c))

ContainerAttached ==
    \E n \in nets, c \in Cids :
        /\ daemonUp
        /\ Exists(Daemon, c)
        /\ c \notin endpoints[n]
        /\ DaemonStep([Daemon EXCEPT !.endpoints[n] = @ \cup {c}])

ContainerExits ==
    \E c \in Cids :
        /\ daemonUp
        /\ cstate[c] = "running"
        /\ DaemonStep([Daemon EXCEPT !.cstate[c] = "exited"])

DaemonGoesDown ==
    /\ daemonUp
    /\ DaemonStep([Daemon EXCEPT !.up = FALSE])

DaemonComesUp ==
    /\ ~daemonUp
    /\ DaemonStep([Daemon EXCEPT !.up = TRUE])

\* ------------------------------------------------------------ specification
Init ==
    /\ cstate = [c \in Cids |-> "absent"]
    /\ nets = {}
    /\ endpoints = [n \in Nids |-> {}]
    /\ netattrs = [n \in Nids |-> NoAttrs]
    /\ daemonUp = TRUE
    /\ res = NoRes
    /\ trace = NoTrace
    /\ calls = <<>>
    /\ df = NoDf
    /\ du = NoDu
    /\ imgtags = [i \in Iids |-> <<RepoTag(i)>>]
    /\ fmt = NoFmt
    /\ volumes = {}
    /\ mounts = [c \in Cids |-> <<>>]
    /\ ipam = NoIpam
    /\ netlist = <<>>
    /\ app = NoApp
    /\ layers = <<>>
    /\ http = NoHttp

\* The container manager and the daemon status query, against a daemon whose
\* containers come and go and which may stop answering.
NextContainers ==
    \/ start_container
    \/ stop_container
    \/ restart_container
    \/ remove_container
    \/ list_containers
    \/ get_daemon_status
    \/ ContainerRuns
    \/ ContainerCreated
    \/ ContainerExits
    \/ DaemonGoesDown
    \/ DaemonComesUp

SpecContainers == Init /\ [][NextContainers]_vars

\* The network manager against a daemon whose containers come and go.
NextNetworks ==
    \/ create_network_default
    \/ remove_network
    \/ connect_container
    \/ disconnect_container
    \/ ContainerRuns
    \/ ContainerRemoved
    \/ ContainerAttached
    \/ DaemonGoesDown
    \/ DaemonComesUp

SpecNetworks == Init /\ [][NextNetworks]_vars

\* Networks created and removed through the facade and read back, against a
\* daemon whose containers come and go and attach themselves.
NextNetworkDetails ==
    \/ create_network
    \/ get_network_details
    \/ remove_network
    \/ ContainerRuns
    \/ ContainerAttached
    \/ DaemonGoesDown
    \/ DaemonComesUp

SpecNetworkDetails == Init /\ [][NextNetworkDetails]_vars

\* get_disk_usage against every report the daemon may give.
NextDisk ==
    \/ get_disk_usage
    \/ ContainerReported
    \/ ImageReported
    \/ VolumeReported
    \/ BuildCacheReported
    \/ DaemonGoesDown
    \/ DaemonComesUp

SpecDisk == Init /\ [][NextDisk]_vars

\* The image manager and the container reads, against a daemon whose images
\* are tagged and untagged and whose containers come and go.
NextImages ==
    \/ list_images
    \/ get_image_details
    \/ list_containers
    \/ get_container_details
    \/ ImageUntagged
    \/ ImageTagged
    \/ ContainerCreated
    \/ ContainerRemoved
    \/ DaemonGoesDown
    \/ DaemonComesUp

SpecImages == Init /\ [][NextImages]_vars

\* remove_volume against a daemon whose volumes and mounting containers come
\* and go.
NextVolumes ==
    \/ remove_volume
    \/ VolumeCreated
    \/ ContainerMounts
    \/ ContainerUnmounts
    \/ DaemonGoesDown
    \/ DaemonComesUp

SpecVolumes == Init /\ [][NextVolumes]_vars

\* The volume reads against every report of volume usage the daemon may give.
NextVolumeUsage ==
    \/ list_volumes
    \/ get_volume_details
    \/ VolumeCreated
    \/ VolumeUsageReported
    \/ DaemonGoesDown
    \/ DaemonComesUp

SpecVolumeUsage == Init /\ [][NextVolumeUsage]_vars

\* get_overall_statistics over every report of disk usage the daemon may give.
NextOverall ==
    \/ get_overall_statistics
    \/ ContainerReported
    \/ ImageReported
    \/ VolumeReported
    \/ BuildCacheReported
    \/ DaemonGoesDown
    \/ DaemonComesUp

SpecOverall == Init /\ [][NextOverall]_vars

\* get_volume_stats against a daemon whose volumes and mounting containers
\* come and go.
NextVolumeStats ==
    \/ get_volume_stats
    \/ VolumeCreated
    \/ ContainerMounts
    \/ ContainerUnmounts
    \/ DaemonGoesDown
    \/ DaemonComesUp

SpecVolumeStats == Init /\ [][NextVolumeStats]_vars

\* get_network_stats over the listings the daemon can give.
NextNetworkStats ==
    \/ get_network_stats
    \/ NetworkListed
    \/ DaemonGoesDown
    \/ DaemonComesUp

SpecNetworkStats == Init /\ [][NextNetworkStats]_vars

\* The reads of the container, volume and system managers between starts of
\* containers made through the facade.
NextReads ==
    \/ start_container
    \/ list_containers
    \/ get_daemon_status
    \/ get_overall_statistics
    \/ get_disk_usage
    \/ list_volumes
    \/ get_volume_details
    \/ ContainerCreated
    \/ VolumeCreated
    \/ DaemonGoesDown
    \/ DaemonComesUp

SpecReads == Init /\ [][NextReads]_vars

\* The API process from its start on, over a daemon that comes and goes.
NextApi ==
    \/ process_start
    \/ health_check
    \/ api_request
    \/ ContainerRuns
    \/ ContainerExits
    \/ DaemonGoesDown
    \/ DaemonComesUp

SpecApi == Init /\ [][NextApi]_vars

\* get_image_details over the histories an image can have.
NextHistory ==
    \/ get_image_details
    \/ LayerAdded
    \/ DaemonGoesDown
    \/ DaemonComesUp

SpecHistory == Init /\ [][NextHistory]_vars

\* _format_ipam on every shape of IPAM data.
NextIpam == format_ipam

SpecIpam == Init /\ [][NextIpam]_vars

\* The three size formatters on the same byte counts.
NextFormat == format_size

SpecFormat == Init /\ [][NextFormat]_vars


\* ------------------------------------------------------------------ claims
NamesIn(r) == {r.names[i] : i \in 1..Len(r.names)}

\* C1: guarded removal.  A remove_network that finds exactly one container in
\* the network fails with Conflict, its message names that container, and the
\* network still exists; when disconnect_container of that container then
\* succeeds and remove_network is called again (nothing else touching the
\* daemon meanwhile), it succeeds and the network no longer exists.
C1_GuardedRemoval ==
    /\ (trace.tag = "guarded" /\ trace.phase = 1) =>
            /\ ~res.ok /\ res.kind = Conflict
            /\ Name(trace.c) \in NamesIn(res)
            /\ trace.n \in nets
    /\ (trace.tag = "guarded" /\ trace.phase = 3 /\ res.race = "none") =>
            /\ res.ok /\ res.status = "removed"
            /\ trace.n \notin nets

C1_Witness ==
    /\ trace.tag = "guarded" /\ trace.phase = 3
    /\ res.op = "remove_network" /\ res.ok /\ res.race = "none"
    /\ trace.n \notin nets

\* C2: remove_network issues the daemon remove command only when the endpoint
\* table it enumerated was empty; when the enumeration is not empty it fails
\* with Conflict naming every enumerated container, issues no daemon command,
\* and the network and its endpoint table are as they were.
C2_RemoveOnlyWhenEmpty ==
    res.op = "remove_network" =>
        /\ calls # <<>> => res.snap = {}
        /\ res.snap # {} =>
            /\ ~res.ok /\ res.kind = Conflict
            /\ NamesIn(res) = {Name(c) : c \in res.snap}
            /\ calls = <<>>
            /\ res.nid \in nets
            /\ endpoints[res.nid] = res.snap

C2_Witness ==
    /\ res.op = "remove_network" /\ res.kind = Conflict
    /\ Cardinality(res.snap) = 2 /\ calls = <<>>

\* C3: connect_container on an existing network and an existing container
\* fails with AlreadyConnected when the container is in the endpoint table it
\* read, issuing no daemon command and leaving the table as it was; when the
\* container is not in that table the daemon connect command is issued, and
\* if it succeeds the container is a member afterwards.
C3_ConnectMembership ==
    (res.op = "connect_container" /\ res.nid # 0 /\ res.cid > 0) =>
        /\ res.cid \in res.snap =>
            /\ ~res.ok /\ res.kind = AlreadyConnected
            /\ calls = <<>>
            /\ endpoints[res.nid] = res.snap
        /\ res.cid \notin res.snap =>
            /\ calls = <<[cmd |-> "connect_container", c |-> res.cid, n |-> res.nid, force |-> FALSE]>>
            /\ res.ok => res.cid \in endpoints[res.nid]

\* C4: disconnect_container on an existing network and an existing container
\* fails with NotConnected when the container is not in the endpoint table it
\* read, whatever force is, issuing no daemon command and leaving the table
\* as it was; when the container is in that table the daemon disconnect
\* command is issued with the caller's force flag.
C4_DisconnectMembership ==
    (res.op = "disconnect_container" /\ res.nid # 0 /\ res.cid > 0) =>
        /\ res.cid \notin res.snap =>
            /\ ~res.ok /\ res.kind = NotConnected
            /\ calls = <<>>
            /\ endpoints[res.nid] = res.snap
        /\ res.cid \in res.snap =>
            calls = <<[cmd |-> "disconnect_container", c |-> res.cid, n |-> res.nid, force |-> res.force]>>


LifecycleOps == {"start_container", "stop_container", "restart_container", "remove_container"}

\* C5: stop_container called twice in a row on the same container: the second
\* call, made when the container is already stopped, fails with AlreadyInState
\* ('... is already stopped'), not with UpstreamFailure and not with success.
C5_StopTwice ==
    (trace.tag = "stop" /\ trace.phase = 2 /\ res.race = "none") =>
        /\ ~res.ok
        /\ res.kind = AlreadyInState
        /\ res.text = "is already stopped"

C5_Witness ==
    /\ trace.tag = "stop" /\ trace.phase = 2 /\ res.race = "none"
    /\ res.op = "stop_container" /\ res.kind = AlreadyInState
    /\ cstate[trace.c] = "exited"

\* C6: when the daemon does not answer (ping, info or version fails)
\* get_daemon_status returns the normal result {status: 'not_running',
\* error: <text>, ping: False} and never raises, while list_containers against
\* the same daemon raises; when the daemon answers, get_daemon_status returns
\* status 'running'.
C6_DaemonDown ==
    /\ res.op = "get_daemon_status" =>
        /\ res.ok
        /\ (res.race # "none" \/ ~daemonUp) =>
                res.status = "not_running" /\ res.ping = FALSE /\ res.text # ""
        /\ res.race = "none" => res.status = "running"
    /\ (res.op = "list_containers" /\ ~daemonUp) => ~res.ok

C6_Witness ==
    /\ res.op = "get_daemon_status" /\ ~daemonUp
    /\ res.ok /\ res.status = "not_running" /\ res.race = "info"

\* C9: the container id in the result of list_containers and of every
\* successful start, stop, restart and remove is the first 12 characters of
\* the resolved container's full id, however the caller named the container,
\* and the status is started / stopped / restarted / removed.
C9_ShortId ==
    /\ (res.op \in LifecycleOps /\ res.ok) =>
            /\ res.id = SubSeq(FullId(res.cid), 1, ShortIdLen)
            /\ res.status = LifecycleStatus(res.op)
    /\ (res.op = "list_containers" /\ res.ok) =>
            \A i \in 1..Len(res.data) :
                \E c \in Cids : /\ res.data[i].name = Name(c)
                                /\ res.data[i].id = SubSeq(FullId(c), 1, ShortIdLen)

\* C10: start, stop, restart and remove first resolve the container; when the
\* daemon answers that there is no such container they fail with NotFound,
\* issue no lifecycle command, and no container's state changes.
C10_NotFoundFirst ==
    [][(res'.op \in LifecycleOps /\ daemonUp /\ ResolveContainer(Daemon, res'.ref) = 0) =>
            /\ ~res'.ok /\ res'.kind = NotFound
            /\ calls' = <<>>
            /\ cstate' = cstate]_vars

C10_Witness ==
    /\ res.op \in LifecycleOps /\ res.kind = NotFound /\ calls = <<>>
    /\ daemonUp /\ ResolveContainer(Daemon, res.ref) = 0
    /\ \E c \in Cids : Exists(Daemon, c)

\* C11: remove_container without force on a running container fails with
\* Conflict (the message advises to stop it first or use force) and the
\* container still exists and is still running; with force it succeeds with
\* status 'removed' and the container no longer exists.  (For a daemon that
\* answers and with no other caller acting on the container meanwhile.)
C11_RemoveRunning ==
    [][(/\ res'.op = "remove_container" /\ res'.race = "none"
        /\ daemonUp
        /\ ResolveContainer(Daemon, res'.ref) > 0
        /\ cstate[ResolveContainer(Daemon, res'.ref)] = "running") =>
            LET c == ResolveContainer(Daemon, res'.ref)
            IN  IF res'.force
                THEN /\ res'.ok /\ res'.status = "removed"
                     /\ cstate'[c] = "absent"
                ELSE /\ ~res'.ok /\ res'.kind = Conflict
                     /\ res'.text = "Cannot remove running container"
                     /\ cstate'[c] = "running"]_vars

C11_Witness ==
    /\ res.op = "remove_container" /\ res.race = "none" /\ ~res.force
    /\ res.kind = Conflict /\ res.cid > 0 /\ cstate[res.cid] = "running"

\* C7: for every report of the daemon, the total.size_bytes get_disk_usage
\* returns is containers.size_bytes + images.size_bytes + volumes.size_bytes
\* + build_cache.size_bytes.
C7_TotalIsSum ==
    (du.op = "get_disk_usage" /\ du.ok) =>
        du.total.size_bytes =
            du.containers.size_bytes + du.images.size_bytes
                + du.volumes.size_bytes + du.build_cache.size_bytes

C7_Witness ==
    /\ du.op = "get_disk_usage" /\ du.ok
    /\ du.build_cache.size_bytes > 0 /\ du.containers.size_bytes > 0
    /\ du.total.size_bytes = du.build_cache.size_bytes + du.containers.size_bytes

\* f[1] + ... + f[k]
RECURSIVE SumTo(_, _)
SumTo(f, k) == IF k = 0 THEN 0 ELSE SumTo(f, k - 1) + f[k]

\* The sum of F over the entries of q that satisfy Keep
SumWhere(q, Keep(_), F(_)) ==
    SumTo([i \in 1..Len(q) |-> IF Keep(q[i]) THEN F(q[i]) ELSE 0], Len(q))

RwOf(e) == IF "SizeRw" \in e.has THEN e.SizeRw ELSE 0
SizeField(e) == IF "Size" \in e.has THEN e.Size ELSE 0
StateIsNotRunning(e) == ~("State" \in e.has /\ e.State = "running")
ContainerCountIsZero(e) == ~("Containers" \in e.has /\ e.Containers # 0)
RefCountIsZero(e) == ~("RefCount" \in e.has /\ e.RefCount # 0)
Always(e) == TRUE

NonNegative(d) ==
    /\ \A i \in 1..Len(d.Containers) : d.Containers[i].SizeRw >= 0 /\ d.Containers[i].SizeRootFs >= 0
    /\ \A i \in 1..Len(d.Images) : d.Images[i].Size >= 0
    /\ \A i \in 1..Len(d.Volumes) : d.Volumes[i].Size >= 0
    /\ \A i \in 1..Len(d.BuildCache) : d.BuildCache[i].Size >= 0

\* C8: reclaimable_bytes is, for containers, the sum of SizeRw over the
\* containers whose State is not 'running'; for images, the sum of Size over
\* the images with no dependent container; for volumes, the sum of Size over
\* the volumes whose RefCount is zero; for the build cache, its whole size;
\* and when no input size is negative each is at most the category's
\* size_bytes.
C8_Reclaimable ==
    (du.op = "get_disk_usage" /\ du.ok) =>
        /\ du.containers.reclaimable_bytes = SumWhere(df.Containers, StateIsNotRunning, RwOf)
        /\ du.images.reclaimable_bytes = SumWhere(df.Images, ContainerCountIsZero, SizeField)
        /\ du.volumes.reclaimable_bytes = SumWhere(df.Volumes, RefCountIsZero, SizeField)
        /\ du.build_cache.reclaimable_bytes = SumWhere(df.BuildCache, Always, SizeField)
        /\ NonNegative(df) =>
            /\ du.containers.reclaimable_bytes <= du.containers.size_bytes
            /\ du.images.reclaimable_bytes <= du.images.size_bytes
            /\ du.volumes.reclaimable_bytes <= du.volumes.size_bytes
            /\ du.build_cache.reclaimable_bytes <= du.build_cache.size_bytes

C8_Witness ==
    /\ du.op = "get_disk_usage" /\ du.ok /\ NonNegative(df)
    /\ Len(df.Containers) = 2
    /\ du.containers.reclaimable_bytes > 0
    /\ du.containers.reclaimable_bytes < du.containers.size_bytes
    /\ \E i \in 1..2 : df.Containers[i].State = "running" /\ df.Containers[i].SizeRw > 0

\* The first ':' of a tag
FirstColon(t) == CHOOSE k \in 1..Len(t) : t[k] = ":" /\ \A j \in 1..(k - 1) : t[j] # ":"

\* C12: for every image without a tag list_images reports tags
\* ['<none>:<none>'], repository '<none>' and tag '<none>'; for every tagged
\* image, repository and tag are the parts of its first tag before and after
\* the first ':' of that tag.
C12_ListImagesTags ==
    (res.op = "list_images" /\ res.ok) =>
        \A i \in Iids :
            IF imgtags[i] = <<>>
            THEN /\ res.data[i].tags = <<NoneTag>>
                 /\ res.data[i].repository = <<"<","n","o","n","e",">">>
                 /\ res.data[i].tag = <<"<","n","o","n","e",">">>
            ELSE LET t == imgtags[i][1]
                     k == FirstColon(t)
                 IN  /\ res.data[i].repository = SubSeq(t, 1, k - 1)
                     /\ res.data[i].tag = SubSeq(t, k + 1, Len(t))

\* C13: for an image with no tags, the tags field get_image_details returns
\* is the sentinel list ['<none>:<none>'], as in list_images, never an empty
\* list.
C13_DetailsTags ==
    (res.op = "get_image_details" /\ res.ok /\ imgtags[res.iid] = <<>>) =>
        /\ res.data.tags # <<>>
        /\ res.data.tags = <<NoneTag>>

\* The command of the k-th layer of the daemon's history, '' when absent.
CommandOf(k) == IF "CreatedBy" \in layers[k].has THEN layers[k].CreatedBy ELSE 0

\* C26: the history get_image_details returns has at most 5 entries, the
\* first 5 layers of the daemon's history in order; created_by is the
\* layer's command when that has at most 100 characters, else its first 100
\* characters followed by '...'; when the history query fails the history is
\* the empty list and get_image_details still succeeds.
C26_History ==
    res.op = "get_image_details" =>
        /\ res.race = "historyfails" => res.ok /\ res.data.history = <<>>
        /\ (res.ok /\ res.race = "none") =>
            /\ Len(res.data.history) <= 5
            /\ Len(res.data.history) = Min(Len(layers), 5)
            /\ \A k \in 1..Len(res.data.history) :
                /\ res.data.history[k].layer = k
                /\ res.data.history[k].created_by =
                        IF CommandOf(k) <= 100
                        THEN [len |-> CommandOf(k), dots |-> FALSE]
                        ELSE [len |-> 100, dots |-> TRUE]

C26_Witness ==
    /\ res.op = "get_image_details" /\ res.ok /\ res.race = "none"
    /\ Len(layers) > 5
    /\ Len(res.data.history) = 5
    /\ \E k \in 1..5 : CommandOf(k) = 100
    /\ \E k \in 1..5 : CommandOf(k) > 100 /\ res.data.history[k].created_by.dots

\* C17: for a container whose image has no tag, the image field of
\* list_containers and of get_container_details is the 12-character id that
\* list_images reports for that image.
C17_ImageFallback ==
    /\ (res.op = "list_containers" /\ res.ok) =>
            \A k \in 1..Len(res.data) : \A c \in Cids :
                (res.data[k].name = Name(c) /\ imgtags[ImageOf(c)] = <<>>) =>
                    res.data[k].image = ImageInfo(ImageOf(c)).id
    /\ (res.op = "get_container_details" /\ res.ok /\ imgtags[ImageOf(res.cid)] = <<>>) =>
            res.data.image = ImageInfo(ImageOf(res.cid)).id

\* C14: the size formatter is one function: every manager's formatter
\* returns '0 B' for 0, '1.5 KB' for 1536 and '1.0 GB' for 1024**3; the three
\* return the same string for every non-negative byte count; and the unit is
\* the one reached by dividing by 1024 until the value is below 1024 (PB from
\* 1024**5 up).
C14_OneFormatter ==
    fmt.op = "format_size" =>
        LET q == fmt.size_bytes
            all == {fmt.image, fmt.volume, fmt.system}
        IN  /\ q = <<0>> => all = {ZeroB}
            /\ q = <<1, 512>> =>
                    all = {[neg |-> FALSE, whole |-> 1, frac |-> 5, unit |-> "KB"]}
            /\ q = <<1, 0, 0, 0>> =>
                    all = {[neg |-> FALSE, whole |-> 1, frac |-> 0, unit |-> "GB"]}
            /\ fmt.image = fmt.volume /\ fmt.volume = fmt.system
            /\ fmt.system.unit = <<"B", "KB", "MB", "GB", "TB", "PB">>[Len(q)]

\* C15: round trip.  After create_network(name, driver='bridge') succeeds,
\* get_network_details(name), called next, succeeds and returns a record
\* whose name is that name, whose driver is 'bridge' and whose containers
\* list is empty.
C15_CreateThenGet ==
    (trace.tag = "created" /\ trace.phase = 2 /\ trace.driver = "bridge") =>
        /\ res.ok
        /\ res.data.name = NetName(trace.n)
        /\ res.data.driver = "bridge"
        /\ res.data.containers = <<>>

C15_Witness ==
    /\ trace.tag = "created" /\ trace.phase = 2 /\ trace.driver = "bridge"
    /\ res.op = "get_network_details" /\ res.ok
    /\ res.data.driver = "bridge" /\ trace.n \in nets

\* The containers, running or stopped, that have a mount of type 'volume'
\* with the name v
Mounting(v) ==
    {c \in Cids : /\ cstate[c] \in {"running", "exited"}
                  /\ \E k \in DOMAIN mounts[c] :
                        mounts[c][k].Type = "volume" /\ mounts[c][k].Name = v}

\* C16: remove_volume without force on a volume that at least one container
\* mounts fails with Conflict, its message names every container, running or
\* stopped, that has a mount of type 'volume' with the volume's name, and the
\* volume still exists.  (For a daemon that answers throughout the call.)
C16_VolumeInUse ==
    (/\ res.op = "remove_volume" /\ ~res.force /\ res.race = "none"
     /\ daemonUp /\ res.snap # {}) =>
        /\ ~res.ok /\ res.kind = Conflict
        /\ NamesIn(res) = {Name(c) : c \in Mounting(res.ref)}
        /\ res.ref \in volumes

C16_Witness ==
    /\ res.op = "remove_volume" /\ ~res.force /\ res.race = "none"
    /\ res.kind = Conflict /\ res.ref \in volumes
    /\ \E c1, c2 \in Mounting(res.ref) : cstate[c1] = "running" /\ cstate[c2] = "exited"
    /\ Cardinality(NamesIn(res)) = 2

\* The usage the report q gives for volume v: that of the first entry whose
\* Name is v, the sentinel when there is none.
Named(q, v) == {i \in DOMAIN q : "Name" \in q[i].has /\ q[i].Name = v}
Sentinel(u) == u.size.unit = "Unknown" /\ u.size_bytes = 0 /\ u.ref_count = 0
TakenFrom(u, e) ==
    /\ u.size_bytes = (IF "Size" \in e.has THEN e.Size ELSE 0)
    /\ u.ref_count = (IF "RefCount" \in e.has THEN e.RefCount ELSE 0)
    /\ u.size.unit # "Unknown"
    /\ u.size.whole = u.size_bytes
UsageAsReported(u, v, answered) ==
    IF answered /\ Named(df.Volumes, v) # {}
    THEN \E i \in Named(df.Volumes, v) :
            /\ \A j \in Named(df.Volumes, v) : i <= j
            /\ TakenFrom(u, df.Volumes[i])
    ELSE Sentinel(u)

\* C18: the usage of a volume is taken from the disk-usage entry whose Name
\* is the volume's name; when the report has no such entry, or the disk-usage
\* query fails, the usage is {size: 'Unknown', size_bytes: 0, ref_count: 0},
\* and list_volumes and get_volume_details (of a volume that exists) still
\* succeed.
C18_VolumeUsage ==
    /\ res.op = "list_volumes" =>
        /\ res.race = "dffails" => res.ok
        /\ res.ok => \A v \in DOMAIN res.data :
                        UsageAsReported(res.data[v].usage, v, res.race = "none")
    /\ (res.op = "get_volume_details" /\ res.ref \in volumes) =>
        /\ (daemonUp \/ res.race = "dffails") => res.ok
        /\ res.ok => UsageAsReported(res.data.usage, res.ref, res.race = "none")

C18_Witness ==
    /\ res.op = "list_volumes" /\ res.ok /\ res.race = "none"
    /\ \E v, w \in DOMAIN res.data :
            /\ Sentinel(res.data[v].usage) /\ Named(df.Volumes, v) = {}
            /\ res.data[w].usage.size_bytes > 0 /\ Named(df.Volumes, w) # {}
    /\ Len(df.Volumes) = 2

\* C19: IPAM normalization always returns a record with exactly the fields
\* driver, options and config; and for every partial or missing daemon value
\* (IPAM absent, IPAM null, Driver absent, Options null, Config absent or
\* null) the defaults are driver 'default', options empty and config an
\* empty list.
C19_IpamDefaults ==
    ipam.op = "_format_ipam" =>
        LET a == ipam.attrs
            out == ipam.out
        IN  /\ DOMAIN out = {"driver", "options", "config"}
            /\ a.IPAM \in {"absent", "null"} =>
                    out.driver = "default" /\ out.options = "empty" /\ out.config = <<>>
            /\ a.Driver = "absent" => out.driver = "default"
            /\ a.Options \in {"absent", "null"} => out.options = "empty"
            /\ a.Config \in {"absent", "null"} => out.config = <<>>

\* The values of the function f added up
RECURSIVE SumOf(_)
SumOf(f) ==
    IF DOMAIN f = {} THEN 0
    ELSE LET k == CHOOSE x \in DOMAIN f : TRUE
         IN  f[k] + SumOf([x \in DOMAIN f \ {k} |-> f[x]])

\* The listed networks whose endpoint table holds container c
AttachedTo(c) ==
    {i \in 1..Len(netlist) : "Containers" \in netlist[i].has /\ c \in netlist[i].Containers}

\* C20: get_network_stats returns a driver histogram and a scope histogram
\* whose counts each sum to total_networks; total_connected_containers equal
\* to the sum over all networks of the size of each network's endpoint table,
\* so that a container attached to k networks is counted k times; and
\* system_networks equal to the number of listed networks named 'bridge',
\* 'host' or 'none'.
C20_NetworkStats ==
    (res.op = "get_network_stats" /\ res.ok) =>
        LET stats == res.data
        IN  /\ stats.total_networks = Len(netlist)
            /\ SumOf(stats.drivers) = stats.total_networks
            /\ SumOf(stats.scopes) = stats.total_networks
            /\ \A k \in DOMAIN stats.drivers : stats.drivers[k] > 0
            /\ \A k \in DOMAIN stats.scopes : stats.scopes[k] > 0
            /\ stats.total_connected_containers =
                    SumOf([c \in Cids |-> Cardinality(AttachedTo(c))])
            /\ stats.system_networks =
                    Cardinality({i \in 1..Len(netlist) :
                                    netlist[i].name \in {"bridge", "host", "none"}})

\* Statistics of a listing with a system network and another one, two
\* drivers, and a container attached to two networks
C20_Witness ==
    /\ res.op = "get_network_stats"
    /\ res.ok
    /\ \E c \in Cids : Cardinality(AttachedTo(c)) = 2
    /\ \E i, j \in 1..Len(netlist) : netlist[i].name = "host" /\ netlist[j].name = "app"
    /\ Cardinality(DOMAIN res.data.drivers) = 2
    /\ res.data.system_networks = 1

\* The kinds of error the facade constructs
FacadeKinds ==
    {NotFound, AlreadyInState, Conflict, AlreadyConnected, NotConnected, UpstreamFailure}

\* C27: in the result of get_volume_stats the counts of the drivers
\* histogram sum to total_volumes, and unused_volumes, the number of existing
\* volumes whose reference count is zero, never exceeds total_volumes, also
\* when volumes are created or removed between the volume-list query and the
\* df query.
C27_VolumeStats ==
    (res.op = "get_volume_stats" /\ res.ok) =>
        /\ SumOf(res.data.drivers) = res.data.total_volumes
        /\ res.data.unused_volumes <= res.data.total_volumes

\* C28: the system.total_disk_usage of get_overall_statistics is the
\* formatted value of the byte total that get_disk_usage reports as
\* total.size_bytes for the same daemon report, whatever the container,
\* image, volume and build-cache sizes.
C28_SameTotal ==
    (du.op = "get_overall_statistics" /\ du.ok) =>
        /\ du.system.total_disk_usage = _format_size(DiskUsage(df).total.size_bytes)
        /\ du.system.total_disk_usage = DiskUsage(df).total.size

\* C29: a NotFound error of connect_container or disconnect_container names
\* the resource that is actually missing, the network or the container,
\* whatever the container identifier is, one that contains the word
\* 'network' included.
C29_NamesTheMissing ==
    (res.op \in {"connect_container", "disconnect_container"} /\ res.kind = NotFound) =>
        /\ res.text = "Network not found" =>
                /\ ResolveNetwork(Daemon, res.netref) = 0
                /\ res.arg = res.netref
        /\ res.text = "Container not found" =>
                /\ ResolveContainer(Daemon, res.ref) = 0
                /\ res.arg = res.ref
        /\ res.text \in {"Network not found", "Container not found"}

\* C21: every public manager operation, for every daemon outcome (success,
\* NotFound, API error, connection failure), ends in exactly one of two ways:
\* it returns a normalized result, or it raises one error constructed by the
\* facade and carrying a descriptive message; a raw daemon exception object
\* never escapes a manager method.
C21_NoRawException ==
    res.op # "none" =>
        \/ res.ok /\ res.kind = ""
        \/ ~res.ok /\ res.kind \in FacadeKinds /\ res.text # ""

\* The operations that only read
ReadOps ==
    {"list_containers", "get_container_details", "get_daemon_status", "list_images",
     "get_image_details", "get_network_details", "get_network_stats", "list_volumes",
     "get_volume_details", "get_disk_usage", "get_overall_statistics"}

Running(cs) == {c \in Cids : cs[c] = "running"}
Existing(cs) == {c \in Cids : cs[c] # "absent"}

Initialised == \A m \in Managers : app.mgr[m]

\* C23: the /health endpoint answers with status code 200 or 503 in every
\* daemon state and never with any other code: 503 with success false when
\* the managers were not initialised, and 200 with docker_daemon set to the
\* status reported by get_daemon_status otherwise.
C23_Health ==
    [][(http' # http /\ http'.route = "/health") =>
        /\ http'.code \in {200, 503}
        /\ IF Initialised
           THEN /\ http'.code = 200
                /\ http'.docker_daemon = IF daemonUp' THEN "running" ELSE "not_running"
           ELSE /\ http'.code = 503
                /\ ~http'.success
       ]_vars

\* /health answers 200 and reports a daemon that does not answer
C23_Witness ==
    /\ http.route = "/health" /\ http.code = 200
    /\ http.docker_daemon = "not_running" /\ ~daemonUp
    /\ Initialised

AllOrNone(a) == (\A m \in Managers : a.mgr[m]) \/ (\A m \in Managers : ~a.mgr[m])

\* C30, as claimed: manager initialisation at process start is all-or-nothing
\* and never retried: in every reachable state either all five managers are
\* initialised or all five are unset; if the daemon is unreachable when any
\* manager is constructed all five stay unset for the life of the process, so
\* every /api operation keeps failing with a 500 error envelope and /health
\* keeps returning 503 even after the daemon becomes reachable again.
C30_AsClaimed ==
    [][/\ AllOrNone(app')
       /\ app.started => app'.mgr = app.mgr
       /\ (app.started /\ ~Initialised /\ http' # http) =>
            /\ ~http'.success
            /\ http'.code = IF http'.route = "/health" THEN 503 ELSE 500
      ]_vars

\* C30, amended: as claimed, but with all five managers unset a request under
\* /api fails with a 500 error envelope only when its handler reaches a
\* manager: /api/commands, which uses none, still answers 200, and a request
\* the handler rejects before it uses a manager (a search without term)
\* answers 400.
C30_AllOrNothing ==
    [][/\ AllOrNone(app')
       /\ app.started => app'.mgr = app.mgr
       /\ (app.started /\ ~Initialised /\ http' # http) =>
            CASE http'.route = "/health" -> http'.code = 503 /\ ~http'.success
              [] http'.route = "/api/commands" -> http'.code = 200 /\ http'.success
              [] http'.route = "/api/images/search" /\ ~http'.term ->
                    http'.code = 400 /\ ~http'.success
              [] OTHER -> http'.code = 500 /\ ~http'.success
      ]_vars

\* The managers are unset, the daemon answers again, and a listing fails
\* with 500
C30_Witness ==
    /\ app.started /\ ~Initialised /\ daemonUp
    /\ \E c \in Cids : cstate[c] = "running"
    /\ http.route = "/api/containers" /\ http.code = 500

\* C24: pre-check guards raise the same error kind the daemon would
\* eventually raise: when connect_container, disconnect_container or
\* remove_network passes its membership pre-check but the daemon rejects the
\* mutating call because membership changed concurrently between check and
\* act, the error the operation raises is of the same kind as the pre-check's
\* error (AlreadyConnected, NotConnected, Conflict respectively).
C24_SameKind ==
    (~res.ok /\ calls # <<>>) =>
        /\ (res.op = "connect_container" /\ res.race = "connect") => res.kind = AlreadyConnected
        /\ (res.op = "disconnect_container" /\ res.race = "disconnect") =>
                res.kind = NotConnected
        /\ (res.op = "remove_network" /\ res.race = "connect") => res.kind = Conflict

\* C25: the check-then-act guard of remove_network is not atomic but the
\* daemon stays authoritative: in every interleaving of a remove_network call
\* with concurrent connect_container calls on the same network,
\* remove_network never returns a 'removed' success for a network that had a
\* connected container when the daemon processed the remove call; in that
\* case it fails with Conflict and the network and its endpoint remain.
C25_DaemonAuthoritative ==
    [][(res' # res /\ res'.op = "remove_network" /\ res'.nid # 0) =>
        LET n == res'.nid
            connected == IF res'.race = "connect" THEN endpoints'[n] ELSE endpoints[n]
        IN  /\ (res'.ok /\ res'.status = "removed") => connected = {}
            /\ (connected # {} /\ daemonUp') =>
                    /\ ~res'.ok /\ res'.kind = Conflict
                    /\ n \in nets' /\ endpoints'[n] = connected
       ]_vars

\* A container was connected between the check and the removal, and the
\* daemon refused
C25_Witness ==
    /\ res.op = "remove_network" /\ res.race = "connect" /\ res.snap = {}
    /\ calls # <<>> /\ res.kind = Conflict /\ res.text = "it has active endpoints"
    /\ res.nid \in nets /\ endpoints[res.nid] # {}

====
